---- MODULE Spec2Model ----
(***************************************************************************)
(* Model of the evaleds run command (src/run_command.rs): the planner that *)
(* expands prompt configurations x providers x models into work items, the *)
(* bounded parallel executor, the sequential executor, and the             *)
(* ProviderManager gateway (src/provider_manager.rs) they call.            *)
(***************************************************************************)
EXTENDS Integers, Sequences, FiniteSets, TLC

\* ------------------------------------------------------------------------
\* Bounds of the model
\* ------------------------------------------------------------------------
MaxItems == 4
MaxPrompts == 2
MaxVariations == 1
MaxModels == 2
MaxConc == 2
MaxOptResults == 4          \* results analysed under each selection of options
MaxPerfResults == 4         \* results whose response times vary
MaxCostResults == 3         \* results whose provider, model and cost vary
MaxSummaryResults == 5      \* results whose key, status and time vary
MaxSelectResults == 4       \* results whose key, status and cost vary
MaxTextLen == 3             \* characters of a text handed to a similarity
MaxOrderResults == 3        \* results analysed in every order

\* ------------------------------------------------------------------------
\* Program constants
\* ------------------------------------------------------------------------
SafetyLimit == 20
DefaultMaxConcurrent == 5

ProviderNames == {"openai", "local"}

VARIABLES
    config,             \* evaluation.config: prompts, providers, batch_settings
    args,               \* RunArgs: max_concurrent (Option<u32>)
    provider_manager,   \* names of the providers ProviderManager::new registered
    pc,                 \* position of the run command
    total_executions,   \* execute: let total_executions
    max_concurrent,     \* execute_parallel: effective limit after unwrap_or/min
    prompt_i,           \* index of the prompt config the planner loop is at
    pending_executions, \* execute_parallel: Vec of planned work items;
                        \* execute_sequential: the items of the current prompt
    pending_iter,       \* number of items already taken from pending_executions
    futures,            \* work items whose gateway call is in flight
    executing,          \* execute_parallel: let mut executing
    results,            \* the results accumulator
    progress,           \* position of the progress bar
    planned,            \* history: every work item the planner emitted, in order
    submitted,          \* history: work items in the order they were submitted
    completed,          \* history: (item, outcome) in the order calls completed
    delays,             \* history: number of 100 ms delays that have elapsed
    stored,             \* the persisted row of the evaluation (Option)
    analysis,           \* execute: let analysis (Option<AnalysisResults>)
    summary,            \* execute: let summary (Option<ResultSummary>)
    fn_call             \* a call of one helper function: name, argument, return

vars == <<config, args, provider_manager, pc, total_executions, max_concurrent,
          prompt_i, pending_executions, pending_iter, futures, executing,
          results, progress, planned, submitted, completed, delays, stored,
          analysis, summary, fn_call>>

\* ------------------------------------------------------------------------
\* Helpers
\* ------------------------------------------------------------------------
SeqsUpTo(S, n) == UNION {[1..k -> S] : k \in 0..n}

Min(a, b) == IF a < b THEN a ELSE b

\* Option<T> is a sequence of at most one element: <<>> is None, <<x>> is Some(x).
unwrap_or(opt, default) == IF opt = <<>> THEN default ELSE opt[1]

RECURSIVE Flatten(_)
Flatten(ss) == IF ss = <<>> THEN <<>> ELSE Head(ss) \o Flatten(Tail(ss))

RECURSIVE SumSeq(_)
SumSeq(s) == IF s = <<>> THEN 0 ELSE Head(s) + SumSeq(Tail(s))

\* ------------------------------------------------------------------------
\* Planner
\* ------------------------------------------------------------------------
\* resolve_prompt_config: Err when the source cannot be resolved, otherwise
\* the base rendering (0) followed by one rendering per variation (1..n).
resolve_prompt_config(prompt_config) ==
    IF prompt_config.resolvable
    THEN [ok |-> TRUE,
          prompts |-> <<0>> \o [v \in 1..prompt_config.variations |-> v]]
    ELSE [ok |-> FALSE, prompts |-> <<>>]

\* Variant of ExpandPrompt: the provider loop outside the rendering loop.
ExpandPrompt_providerOuter(cfg, p, resolved_prompts) ==
    Flatten([j \in 1..Len(cfg.providers) |->
        Flatten([r \in 1..Len(resolved_prompts) |->
            [m \in 1..cfg.providers[j].models |->
                [prompt |-> p, rendering |-> resolved_prompts[r],
                 provider |-> j, model |-> m]]])])

\* The three inner loops of the planner for one prompt config: for each
\* resolved prompt, for each provider config, for each model.
ExpandPrompt(cfg, p, resolved_prompts) ==
    Flatten([r \in 1..Len(resolved_prompts) |->
        Flatten([j \in 1..Len(cfg.providers) |->
            [m \in 1..cfg.providers[j].models |->
                [prompt |-> p, rendering |-> resolved_prompts[r],
                 provider |-> j, model |-> m]]])])

\* calculate_total_executions, as the loops compute it.  The counts of the
\* model stay far below 2^32, so the u32 additions never wrap.
RECURSIVE TotalOverProviders(_, _)
TotalOverProviders(prompt_variations, provs) ==
    IF provs = <<>> THEN 0
    ELSE prompt_variations * Head(provs).models
         + TotalOverProviders(prompt_variations, Tail(provs))

\* Variant of TotalOverPrompts: the base rendering is not counted.
RECURSIVE TotalOverPrompts_noBase(_, _)
TotalOverPrompts_noBase(ps, provs) ==
    IF ps = <<>> THEN 0
    ELSE TotalOverProviders(Head(ps).variations, provs)
         + TotalOverPrompts_noBase(Tail(ps), provs)

RECURSIVE TotalOverPrompts(_, _)
TotalOverPrompts(ps, provs) ==
    IF ps = <<>> THEN 0
    ELSE TotalOverProviders(1 + Head(ps).variations, provs)
         + TotalOverPrompts(Tail(ps), provs)

calculate_total_executions(cfg) == TotalOverPrompts(cfg.prompts, cfg.providers)

\* ------------------------------------------------------------------------
\* Gateway
\* ------------------------------------------------------------------------
\* What Provider::execute can answer, and the time start_time.elapsed()
\* measures for the call, in ms.
ElapsedTimes == {10}
\* A text is the sequence of its characters; the response content of a
\* successful call, and String::new() = <<>> of a failed one.
ResponseContent == <<"a">>
ProviderAnswers == [kind : {"ok", "err"}, elapsed : ElapsedTimes]

\* Variant of execute_prompt: a provider error is returned as Err instead of
\* being captured in a Failed result.
execute_prompt_propagateErr(cfg, pm, item, answer) ==
    IF cfg.providers[item.provider].name \notin pm \/ answer.kind = "err"
    THEN [ok |-> FALSE]
    ELSE [ok |-> TRUE,
          result |-> [item |-> item,
                      id |-> item,
                      response_time_ms |-> answer.elapsed,
                      provider |-> cfg.providers[item.provider].name,
                      model |-> item.model,
                      output |-> ResponseContent,
                      token_count_input |-> 1,
                      token_count_output |-> 1,
                      cost_usd |-> 1,
                      error |-> "None",
                      status |-> "Success"]]

\* ProviderManager::execute_prompt: Err when the provider is not registered,
\* otherwise Ok(ExecutionResult) with status Success or Failed.
execute_prompt(cfg, pm, item, answer) ==
    IF cfg.providers[item.provider].name \notin pm
    THEN [ok |-> FALSE]
    ELSE IF answer.kind = "ok"
    THEN [ok |-> TRUE,
          result |-> [item |-> item,
                      id |-> item,
                      response_time_ms |-> answer.elapsed,
                      provider |-> cfg.providers[item.provider].name,
                      model |-> item.model,
                      output |-> ResponseContent,
                      token_count_input |-> 1,
                      token_count_output |-> 1,
                      cost_usd |-> 1,
                      error |-> "None",
                      status |-> "Success"]]
    ELSE [ok |-> TRUE,
          result |-> [item |-> item,
                      id |-> item,
                      response_time_ms |-> answer.elapsed,
                      provider |-> cfg.providers[item.provider].name,
                      model |-> item.model,
                      output |-> <<>>,
                      token_count_input |-> 0,
                      token_count_output |-> 0,
                      cost_usd |-> 0,
                      error |-> "Some",
                      status |-> "Failed"]]

\* The outcome recorded in the history for a call.
OutcomeOf(cfg, pm, item, answer) ==
    IF cfg.providers[item.provider].name \notin pm THEN "unavailable"
    ELSE answer.kind

\* Variant of PushResult: a result is put at the front of the accumulator.
PushResult_prepend(res, call) ==
    IF call.ok THEN <<call.result>> \o res ELSE res

\* match result { Ok(r) => results.push(r), Err(e) => eprintln!(..) }
PushResult(res, call) ==
    IF call.ok THEN Append(res, call.result) ELSE res

\* ------------------------------------------------------------------------
\* Analysis engine (src/analysis_engine.rs)
\* ------------------------------------------------------------------------
\* A float result is kept as the exact fraction <<numerator, denominator>>;
\* costs are whole numbers of the smallest cost unit.
RatEq(a, b) == a[1] * b[2] = b[1] * a[2]
RatLess(a, b) == a[1] * b[2] < b[1] * a[2]
RatAdd(a, b) == <<a[1] * b[2] + b[1] * a[2], a[2] * b[2]>>

IsSuccess(r) == r.status = "Success"

\* The "provider/model" key of format!("{}/{}", provider, model); registered
\* provider names hold no '/', so the key determines the pair.
ModelKey(r) == <<r.provider, r.model>>

\* sorted_times.sort(): insertion into an ascending sequence.
RECURSIVE InsertSorted(_, _)
InsertSorted(x, s) ==
    IF s = <<>> THEN <<x>>
    ELSE IF x <= Head(s) THEN <<x>> \o s
    ELSE <<Head(s)>> \o InsertSorted(x, Tail(s))

RECURSIVE SortTimes(_)
SortTimes(s) == IF s = <<>> THEN <<>> ELSE InsertSorted(Head(s), SortTimes(Tail(s)))

\* Variant of MedianResponseTime: the upper middle element, no averaging.
MedianResponseTime_upperMiddle(response_times) ==
    LET sorted_times == SortTimes(response_times)
    IN IF sorted_times = <<>> THEN <<0, 1>>
       ELSE <<sorted_times[(Len(sorted_times) \div 2) + 1], 1>>

\* compute_performance_stats, lines 243-254 (indices are 1-based here).
MedianResponseTime(response_times) ==
    LET sorted_times == SortTimes(response_times)
        mid == Len(sorted_times) \div 2
    IN IF sorted_times = <<>> THEN <<0, 1>>
       ELSE IF Len(sorted_times) % 2 = 0
       THEN <<sorted_times[mid] + sorted_times[mid + 1], 2>>
       ELSE <<sorted_times[mid + 1], 1>>

RECURSIVE MinOf(_)
MinOf(s) == IF Len(s) = 1 THEN s[1]
            ELSE IF Head(s) <= MinOf(Tail(s)) THEN Head(s) ELSE MinOf(Tail(s))

RECURSIVE MaxOf(_)
MaxOf(s) == IF Len(s) = 1 THEN s[1]
            ELSE IF Head(s) >= MaxOf(Tail(s)) THEN Head(s) ELSE MaxOf(Tail(s))

\* Variant of SuccessRate: the rate as a fraction of 1, not a percentage.
SuccessRate_fraction(successful_executions, total) ==
    IF total > 0 THEN <<successful_executions, total>> ELSE <<0, 1>>

\* compute_performance_stats, lines 231-235.
\* Variant of the success rate: 100 for no executions.
SuccessRate_emptyIsFull(successful_executions, total) ==
    IF total > 0 THEN <<successful_executions * 100, total>> ELSE <<100, 1>>

SuccessRate(successful_executions, total) ==
    IF total > 0 THEN <<successful_executions * 100, total>> ELSE <<0, 1>>

compute_performance_stats(rs) ==
    LET response_times == [i \in 1..Len(rs) |-> rs[i].response_time_ms]
        successful_executions == Len(SelectSeq(rs, IsSuccess))
        total == Len(rs)
    IN [avg_response_time |->
            IF response_times # <<>> THEN <<SumSeq(response_times), Len(response_times)>>
            ELSE <<0, 1>>,
        median_response_time |-> MedianResponseTime(response_times),
        min_response_time |-> IF response_times = <<>> THEN 0 ELSE MinOf(response_times),
        max_response_time |-> IF response_times = <<>> THEN 0 ELSE MaxOf(response_times),
        success_rate |-> SuccessRate(successful_executions, total),
        total_executions |-> total,
        failed_executions |-> total - successful_executions]

\* ------------------------------------------------------------------------
\* f64 addition of costs
\* ------------------------------------------------------------------------
\* A positive f64 is m * 2^e with m of 53 bits, the highest one set; m is
\* kept as its bits, lowest first.  0.0 has no bits.  The costs summed are
\* far from the exponent limits, so overflow and subnormals do not occur.
RECURSIVE BitsOf(_, _)
BitsOf(n, width) ==
    IF width = 0 THEN <<>> ELSE <<n % 2>> \o BitsOf(n \div 2, width - 1)

\* The 53 bits of hi * 2^27 + lo.
F64(hi, lo, e) == [m |-> BitsOf(lo, 27) \o BitsOf(hi, 26), e |-> e]

F64Zero == [m |-> <<>>, e |-> 0]

Zeros(k) == [i \in 1..k |-> 0]

RECURSIVE StripHigh(_)
StripHigh(bits) ==
    IF bits = <<>> \/ bits[Len(bits)] = 1 THEN bits
    ELSE StripHigh(SubSeq(bits, 1, Len(bits) - 1))

RECURSIVE BitsAdd(_, _, _)
BitsAdd(a, b, carry) ==
    IF a = <<>> /\ b = <<>> THEN (IF carry = 1 THEN <<1>> ELSE <<>>)
    ELSE LET x == IF a = <<>> THEN 0 ELSE Head(a)
             y == IF b = <<>> THEN 0 ELSE Head(b)
             t == x + y + carry
         IN <<t % 2>> \o BitsAdd(IF a = <<>> THEN <<>> ELSE Tail(a),
                                 IF b = <<>> THEN <<>> ELSE Tail(b),
                                 t \div 2)

\* The exact sum of two positive values, as bits in units of 2^e.
ExactSum(x, y) ==
    LET e == Min(x.e, y.e)
    IN [m |-> StripHigh(BitsAdd(Zeros(x.e - e) \o x.m, Zeros(y.e - e) \o y.m, 0)),
        e |-> e]

\* The bits an exact sum loses when it is rounded to 53 bits.
DroppedBits(s) == IF Len(s.m) > 53 THEN SubSeq(s.m, 1, Len(s.m) - 53) ELSE <<>>

\* Rounding to nearest, ties to even.
RoundToF64(s) ==
    LET len == Len(s.m)
        d == len - 53
    IN IF len <= 53 THEN [m |-> Zeros(53 - len) \o s.m, e |-> s.e - (53 - len)]
       ELSE LET kept == SubSeq(s.m, d + 1, len)
                half == s.m[d] = 1
                sticky == \E i \in 1..(d - 1) : s.m[i] = 1
                up == half /\ (sticky \/ kept[1] = 1)
                inc == BitsAdd(kept, <<1>>, 0)
            IN IF ~up THEN [m |-> kept, e |-> s.e + d]
               ELSE IF Len(inc) = 54 THEN [m |-> SubSeq(inc, 2, 54), e |-> s.e + d + 1]
               ELSE [m |-> inc, e |-> s.e + d]

F64Add(x, y) ==
    IF x.m = <<>> THEN y
    ELSE IF y.m = <<>> THEN x
    ELSE RoundToF64(ExactSum(x, y))

\* iter().sum::<f64>(): the additions from 0.0, in sequence order.
RECURSIVE F64Sum(_)
F64Sum(costs) ==
    IF costs = <<>> THEN F64Zero
    ELSE F64Add(F64Sum(SubSeq(costs, 1, Len(costs) - 1)), costs[Len(costs)])

\* No addition of the sum loses a bit.
RECURSIVE F64SumExact(_)
F64SumExact(costs) ==
    IF costs = <<>> THEN TRUE
    ELSE LET rest == SubSeq(costs, 1, Len(costs) - 1)
             acc == F64Sum(rest)
             c == costs[Len(costs)]
         IN /\ F64SumExact(rest)
            /\ acc.m = <<>> \/ c.m = <<>>
                   \/ \A i \in 1..Len(DroppedBits(ExactSum(acc, c))) :
                          DroppedBits(ExactSum(acc, c))[i] = 0

\* estimate_cost of OpenAIProvider for "gpt-4" with 1000/1000, 1000/2000 and
\* 2000/2000 input/output tokens: the f64 values 0.09, 0.15 and 0.18.
Gpt4Costs ==
    {F64(48318382, 10737418, -56), F64(40265318, 53687091, -55),
     F64(48318382, 10737418, -55)}

\* Variant of AddCost: the entry is replaced by the cost, not increased.
AddCost_overwrite(map, key, cost) ==
    [k \in DOMAIN map \cup {key} |-> IF k = key THEN cost ELSE map[k]]

\* *map.entry(key).or_insert(0.0) += cost
AddCost(map, key, cost) ==
    IF key \in DOMAIN map
    THEN [map EXCEPT ![key] = @ + cost]
    ELSE [k \in DOMAIN map \cup {key} |-> IF k = key THEN cost ELSE map[k]]

EmptyMap == [k \in {} |-> 0]

\* compute_cost_breakdown, lines 192-198: the maps after the loop.
RECURSIVE CostByProvider(_)
CostByProvider(rs) ==
    IF rs = <<>> THEN EmptyMap
    ELSE AddCost(CostByProvider(SubSeq(rs, 1, Len(rs) - 1)),
                 rs[Len(rs)].provider, rs[Len(rs)].cost_usd)

RECURSIVE CostByModel(_)
CostByModel(rs) ==
    IF rs = <<>> THEN EmptyMap
    ELSE AddCost(CostByModel(SubSeq(rs, 1, Len(rs) - 1)),
                 ModelKey(rs[Len(rs)]), rs[Len(rs)].cost_usd)

\* lines 200-206: the cost apportioned by the input/output token ratio.
RECURSIVE TokenCost(_, _)
TokenCost(rs, side) ==
    IF rs = <<>> THEN <<0, 1>>
    ELSE LET r == rs[Len(rs)]
             rest == TokenCost(SubSeq(rs, 1, Len(rs) - 1), side)
             total_tokens == r.token_count_input + r.token_count_output
             tokens == IF side = "input" THEN r.token_count_input
                       ELSE r.token_count_output
         IN IF total_tokens > 0
            THEN RatAdd(rest, <<r.cost_usd * tokens, total_tokens>>)
            ELSE rest

compute_cost_breakdown(rs) ==
    [total_cost |-> SumSeq([i \in 1..Len(rs) |-> rs[i].cost_usd]),
     cost_by_provider |-> CostByProvider(rs),
     cost_by_model |-> CostByModel(rs),
     input_token_cost |-> TokenCost(rs, "input"),
     output_token_cost |-> TokenCost(rs, "output")]

\* ------------------------------------------------------------------------
\* SimilarityCalculator (src/analysis_engine.rs, lines 365-437)
\* ------------------------------------------------------------------------
Max(a, b) == IF a >= b THEN a ELSE b

IsWhitespace(c) == c \in {" ", "\n"}

\* char::to_lowercase over the alphabet of the model.
UpperCase == <<"A", "B", "C", "D", "E", "F", "G", "H", "I", "J", "K", "L", "M",
              "N", "O", "P", "Q", "R", "S", "T", "U", "V", "W", "X", "Y", "Z">>
LowerCase == <<"a", "b", "c", "d", "e", "f", "g", "h", "i", "j", "k", "l", "m",
              "n", "o", "p", "q", "r", "s", "t", "u", "v", "w", "x", "y", "z">>

LowerChar(c) ==
    IF \E i \in 1..Len(UpperCase) : UpperCase[i] = c
    THEN LowerCase[CHOOSE i \in 1..Len(UpperCase) : UpperCase[i] = c]
    ELSE c

to_lowercase(text) == [i \in 1..Len(text) |-> LowerChar(text[i])]

\* str::split_whitespace: the maximal runs of non-whitespace characters.
RECURSIVE SplitWords(_, _)
SplitWords(text, word) ==
    IF text = <<>> THEN (IF word = <<>> THEN <<>> ELSE <<word>>)
    ELSE IF IsWhitespace(Head(text))
    THEN (IF word = <<>> THEN <<>> ELSE <<word>>) \o SplitWords(Tail(text), <<>>)
    ELSE SplitWords(Tail(text), Append(word, Head(text)))

split_whitespace(text) == SplitWords(text, <<>>)

\* The lines TextDiff::from_lines compares: each with its terminator, the
\* last one without if the text does not end in a newline.  str::lines()
\* yields as many lines.
RECURSIVE SplitLines(_, _)
SplitLines(text, line) ==
    IF text = <<>> THEN (IF line = <<>> THEN <<>> ELSE <<line>>)
    ELSE IF Head(text) = "\n"
    THEN <<Append(line, "\n")>> \o SplitLines(Tail(text), <<>>)
    ELSE SplitLines(Tail(text), Append(line, Head(text)))

from_lines(text) == SplitLines(text, <<>>)

\* The number of Equal changes of a shortest edit script (Myers): the length
\* of a longest common subsequence.
RECURSIVE EqualChanges(_, _)
EqualChanges(a, b) ==
    IF a = <<>> \/ b = <<>> THEN 0
    ELSE IF Head(a) = Head(b) THEN 1 + EqualChanges(Tail(a), Tail(b))
    ELSE Max(EqualChanges(Tail(a), b), EqualChanges(a, Tail(b)))

jaccard_similarity(text1, text2) ==
    LET w1 == split_whitespace(text1)
        w2 == split_whitespace(text2)
        words1 == {to_lowercase(w1[i]) : i \in 1..Len(w1)}
        words2 == {to_lowercase(w2[i]) : i \in 1..Len(w2)}
        intersection == Cardinality(words1 \cap words2)
        union == Cardinality(words1 \cup words2)
    IN IF union = 0 THEN <<0, 1>> ELSE <<intersection, union>>

\* Variant of cosine_similarity: the equal lines over the lines of text1.
cosine_similarity_overFirst(text1, text2) ==
    LET a == from_lines(text1)
        b == from_lines(text2)
        total_lines == Max(Len(a), Len(b))
        equal_changes == EqualChanges(a, b)
    IN IF total_lines = 0 THEN <<1, 1>>
       ELSE IF Len(a) = 0 THEN <<1, 1>>
       ELSE <<equal_changes, Len(a)>>

\* "cosine" similarity: the Equal changes over all changes of the line diff
\* (each Equal line once, each deleted and each inserted line once).
cosine_similarity(text1, text2) ==
    LET a == from_lines(text1)
        b == from_lines(text2)
        total_lines == Max(Len(a), Len(b))
        equal_changes == EqualChanges(a, b)
        changes == (Len(a) - equal_changes) + (Len(b) - equal_changes)
                   + equal_changes
    IN IF total_lines = 0 THEN <<1, 1>>
       ELSE IF changes = 0 THEN <<1, 1>>
       ELSE <<equal_changes, changes>>

\* Variant of simple_similarity: the common characters over the length of
\* text1.
simple_similarity_overFirst(text1, text2) ==
    LET shorter == Min(Len(text1), Len(text2))
        common_chars == Cardinality({i \in 1..shorter : text1[i] = text2[i]})
    IN IF Max(Len(text1), Len(text2)) = 0 THEN <<1, 1>>
       ELSE IF Len(text1) = 0 THEN <<0, 1>>
       ELSE <<common_chars, Len(text1)>>

simple_similarity(text1, text2) ==
    LET max_len == Max(Len(text1), Len(text2))
        shorter == Min(Len(text1), Len(text2))
        common_chars == Cardinality({i \in 1..shorter : text1[i] = text2[i]})
    IN IF max_len = 0 THEN <<1, 1>> ELSE <<common_chars, max_len>>

\* "Other" stands for every variant besides Jaccard and Cosine.
SimilarityTypes == {"Jaccard", "Cosine", "Other"}

calculate_similarity(text1, text2, similarity_type) ==
    IF similarity_type = "Jaccard" THEN jaccard_similarity(text1, text2)
    ELSE IF similarity_type = "Cosine" THEN cosine_similarity(text1, text2)
    ELSE simple_similarity(text1, text2)

\* ------------------------------------------------------------------------
\* Readability
\* ------------------------------------------------------------------------
\* A text handed to the readability score is a bag of words separated by
\* whitespace: text[w] is the number of occurrences of the word w. Neither
\* regular expression matches whitespace, so both counts are sums over the
\* words.
Vowels == {"a", "e", "i", "o", "u", "y", "A", "E", "I", "O", "U", "Y"}
SentenceEndings == {".", "!", "?"}

\* Regex::find_iter(..).count() for a character class with +: the maximal
\* runs of characters of the class.
Runs(word, class) ==
    Cardinality({i \in 1..Len(word) :
                    word[i] \in class /\ (i = 1 \/ word[i - 1] \notin class)})

RECURSIVE WordSum(_, _, _)
WordSum(ws, text, value) ==
    IF ws = {} THEN 0
    ELSE LET w == CHOOSE x \in ws : TRUE
         IN text[w] * value[w] + WordSum(ws \ {w}, text, value)

WordCount(text) == WordSum(DOMAIN text, text, [w \in DOMAIN text |-> 1])

count_sentences(text) ==
    WordSum(DOMAIN text, text, [w \in DOMAIN text |-> Runs(w, SentenceEndings)])

estimate_syllables(text) ==
    WordSum(DOMAIN text, text, [w \in DOMAIN text |-> Max(Runs(w, Vowels), 1)])

RECURSIVE GCD(_, _)
GCD(a, b) == IF b = 0 THEN a ELSE GCD(b, a % b)

Abs(n) == IF n < 0 THEN 0 - n ELSE n

Reduce(q) ==
    LET g == GCD(Abs(q[1]), q[2]) IN <<q[1] \div g, q[2] \div g>>

\* The coefficients 206.835, 1.015 and 84.6 in 200ths.
FleschBase == 41367
FleschSentenceLength == 203
FleschSyllables == 16920
FleschUnit == 200

\* Variant of calculate_readability_score: sentences per word for the
\* average sentence length.
calculate_readability_score_inverseLength(text) ==
    LET words == WordCount(text)
        sentences == Max(count_sentences(text), 1)
        syllables == estimate_syllables(text)
    IN IF words = 0 \/ sentences = 0 THEN <<0, 1>>
       ELSE Reduce(<<FleschBase * sentences * words
                       - FleschSentenceLength * sentences * sentences
                       - FleschSyllables * syllables * sentences,
                     FleschUnit * sentences * words>>)

\* calculate_readability_score, lines 275-289, as an exact fraction:
\* 206.835 - 1.015 * words / sentences - 84.6 * syllables / words over the
\* common denominator 200 * sentences * words.
calculate_readability_score(text) ==
    LET words == WordCount(text)
        sentences == Max(count_sentences(text), 1)
        syllables == estimate_syllables(text)
    IN IF words = 0 \/ sentences = 0 THEN <<0, 1>>
       ELSE Reduce(<<FleschBase * sentences * words
                       - FleschSentenceLength * words * words
                       - FleschSyllables * syllables * sentences,
                     FleschUnit * sentences * words>>)

\* ------------------------------------------------------------------------
\* Confidence
\* ------------------------------------------------------------------------
\* A text handed to the confidence score: its length in bytes, whether it has
\* a newline, a hyphen or a bullet, and the phrases it holds between filler
\* characters that belong to no marker.
uncertainty_markers ==
    {<<"m", "a", "y", "b", "e">>,
     <<"p", "e", "r", "h", "a", "p", "s">>,
     <<"m", "i", "g", "h", "t">>,
     <<"c", "o", "u", "l", "d", " ", "b", "e">>,
     <<"I", " ", "t", "h", "i", "n", "k">>,
     <<"p", "o", "s", "s", "i", "b", "l", "y">>}

definitive_markers ==
    {<<"d", "e", "f", "i", "n", "i", "t", "e", "l", "y">>,
     <<"c", "e", "r", "t", "a", "i", "n", "l", "y">>,
     <<"c", "l", "e", "a", "r", "l", "y">>,
     <<"e", "x", "a", "c", "t", "l", "y">>,
     <<"p", "r", "e", "c", "i", "s", "e", "l", "y">>}

\* str::contains for a pattern of characters.
Contains(text, pattern) ==
    \E i \in 0..(Len(text) - Len(pattern)) :
       \A j \in 1..Len(pattern) : text[i + j] = pattern[j]

\* text.to_lowercase().contains(marker), lines 316 and 324.
LowercaseContains(text, marker) ==
    \E phrase \in text.phrases : Contains(to_lowercase(phrase), marker)

Clamp(score) == Min(Max(score, 0), 100)

ConfidenceBase == 50
ConfidenceStep == 10
MarkerStep == 5
DetailedLen == 100
VeryDetailedLen == 500

\* calculate_confidence_score, lines 298-331. Every intermediate score is a
\* multiple of 5 below 2^24, exact in f32.
calculate_confidence_score(text) ==
    Clamp(ConfidenceBase
            + (IF text.len > DetailedLen THEN ConfidenceStep ELSE 0)
            + (IF text.len > VeryDetailedLen THEN ConfidenceStep ELSE 0)
            + (IF text.structured THEN ConfidenceStep ELSE 0)
            - MarkerStep * Cardinality({m \in uncertainty_markers :
                                          LowercaseContains(text, m)})
            + MarkerStep * Cardinality({m \in definitive_markers :
                                          LowercaseContains(text, m)}))

\* Variant of compute_similarity_matrix: the full square without the diagonal.
compute_similarity_matrix_bothTriangles(rs) ==
    LET successful_results == SelectSeq(rs, IsSuccess)
        n == Len(successful_results)
    IN Flatten([i \in 1..n |->
           Flatten([j \in 1..n |->
               IF i # j
               THEN <<[execution_id_1 |-> successful_results[i].id,
                       execution_id_2 |-> successful_results[j].id,
                       similarity_score |->
                           calculate_similarity(successful_results[i].output,
                                                successful_results[j].output,
                                                "Cosine"),
                       similarity_type |-> "Cosine"]>>
               ELSE <<>>])])

\* compute_similarity_matrix: the two loops over the Success results.
compute_similarity_matrix(rs) ==
    LET successful_results == SelectSeq(rs, IsSuccess)
        n == Len(successful_results)
    IN Flatten([i \in 1..n |->
           Flatten([j \in 1..n |->
               IF i < j
               THEN <<[execution_id_1 |-> successful_results[i].id,
                       execution_id_2 |-> successful_results[j].id,
                       similarity_score |->
                           calculate_similarity(successful_results[i].output,
                                                successful_results[j].output,
                                                "Cosine"),
                       similarity_type |-> "Cosine"]>>
               ELSE <<>>])])

\* Variant of PerSuccess: one entry per result, whatever its status.
PerSuccess_everyResult(rs) ==
    [k \in 1..Len(rs) |-> [execution_id |-> rs[k].id]]

\* compute_response_metrics, compute_content_analysis and
\* compute_quality_indicators: one entry per Success result, in input order.
PerSuccess(rs) ==
    LET successful == SelectSeq(rs, IsSuccess)
    IN [k \in 1..Len(successful) |-> [execution_id |-> successful[k].id]]

compute_response_metrics(rs) ==
    LET successful == SelectSeq(rs, IsSuccess)
    IN [k \in 1..Len(successful) |->
           [execution_id |-> successful[k].id,
            response_time_ms |-> successful[k].response_time_ms,
            cost_usd |-> successful[k].cost_usd]]

compute_content_analysis(rs) == PerSuccess(rs)

compute_quality_indicators(rs) == PerSuccess(rs)

\* analyze_results
analyze_results(rs, options) ==
    [response_metrics |->
         IF options.response_metrics THEN compute_response_metrics(rs) ELSE <<>>,
     similarity_matrix |->
         IF options.similarity_analysis THEN compute_similarity_matrix(rs) ELSE <<>>,
     content_analysis |->
         IF options.content_analysis THEN compute_content_analysis(rs) ELSE <<>>,
     quality_indicators |->
         IF options.quality_indicators THEN compute_quality_indicators(rs) ELSE <<>>,
     cost_breakdown |-> compute_cost_breakdown(rs),
     performance_stats |-> compute_performance_stats(rs)]

\* ------------------------------------------------------------------------
\* Summary reducer (src/run_command.rs, generate_summary and find_*)
\* ------------------------------------------------------------------------
\* find_best_performing_model, lines 330-338: the HashMap of
\* (response time sum, total, successes) per provider/model key.
RECURSIVE ModelStats(_)
ModelStats(rs) ==
    IF rs = <<>> THEN EmptyMap
    ELSE LET r == rs[Len(rs)]
             rest == ModelStats(SubSeq(rs, 1, Len(rs) - 1))
             old == IF ModelKey(r) \in DOMAIN rest THEN rest[ModelKey(r)]
                    ELSE <<0, 0, 0>>
             new == <<old[1] + r.response_time_ms, old[2] + 1,
                      old[3] + (IF IsSuccess(r) THEN 1 ELSE 0)>>
         IN [k \in DOMAIN rest \cup {ModelKey(r)} |->
                IF k = ModelKey(r) THEN new ELSE rest[k]]

\* Variant of ReachesThreshold: strictly above 0.8.
ReachesThreshold_strict(successes, total) == successes * 5 > total * 4

\* The filter of line 341: successes / total >= 0.8.
ReachesThreshold(successes, total) == successes * 5 >= total * 4

\* min_by over a HashMap yields the first minimum in iteration order, which
\* is unspecified: any key whose value no other key is strictly below.
Minima(keys, value) ==
    {k \in keys : \A k2 \in keys : ~RatLess(value[k2], value[k])}

\* Option<String> results as the set of values the function can return.
OneOf(keys) == IF keys = {} THEN {<<>>} ELSE {<<k>> : k \in keys}

find_best_performing_model(rs) ==
    LET model_stats == ModelStats(rs)
        passing == {k \in DOMAIN model_stats :
                       ReachesThreshold(model_stats[k][3], model_stats[k][2])}
        avg == [k \in passing |-> <<model_stats[k][1], model_stats[k][2]>>]
    IN OneOf(Minima(passing, avg))

\* Variant of find_most_cost_effective_model: costs are summed over all
\* results, so a key without a Success result is a candidate.
find_most_cost_effective_model_allResults(rs) ==
    LET model_costs == CostByModel(rs)
        cost == [k \in DOMAIN model_costs |-> <<model_costs[k], 1>>]
    IN OneOf(Minima(DOMAIN model_costs, cost))

find_most_cost_effective_model(rs) ==
    LET model_costs == CostByModel(SelectSeq(rs, IsSuccess))
        cost == [k \in DOMAIN model_costs |-> <<model_costs[k], 1>>]
    IN OneOf(Minima(DOMAIN model_costs, cost))

\* Variant of find_fastest_model: the mean is taken over all results.
find_fastest_model_allResults(rs) ==
    LET model_times == ModelStats(rs)
        avg == [k \in DOMAIN model_times |-> <<model_times[k][1], model_times[k][2]>>]
    IN OneOf(Minima(DOMAIN model_times, avg))

find_fastest_model(rs) ==
    LET model_times == ModelStats(SelectSeq(rs, IsSuccess))
        avg == [k \in DOMAIN model_times |-> <<model_times[k][1], model_times[k][2]>>]
    IN OneOf(Minima(DOMAIN model_times, avg))

\* generate_summary.  The three selections depend on the iteration order of
\* a HashMap; each field holds the set of values the code can return for it.
generate_summary(rs, an) ==
    LET total == Len(rs)
        successful_executions == Len(SelectSeq(rs, IsSuccess))
    IN [total_executions |-> total,
        successful_executions |-> successful_executions,
        failed_executions |-> total - successful_executions,
        total_cost |-> SumSeq([i \in 1..Len(rs) |-> rs[i].cost_usd]),
        avg_response_time |->
            IF rs # <<>>
            THEN <<SumSeq([i \in 1..Len(rs) |-> rs[i].response_time_ms]), Len(rs)>>
            ELSE <<0, 1>>,
        success_rate |-> SuccessRate(successful_executions, total),
        best_performing_model |-> find_best_performing_model(rs),
        most_cost_effective |-> find_most_cost_effective_model(rs),
        fastest_model |-> find_fastest_model(rs)]

\* ------------------------------------------------------------------------
\* Storage (src/storage.rs)
\* ------------------------------------------------------------------------
\* save_evaluation can fail before the evaluations row is replaced, or after
\* it, while the execution results are saved (only when results are present).
StorageOutcomes(row) ==
    IF row.results # <<>> THEN {"ok", "row_err", "results_err"}
    ELSE {"ok", "row_err"}

\* update_evaluation: the row persisted after the call.
update_evaluation(old, row, outcome) ==
    IF outcome = "row_err" THEN old ELSE <<row>>

\* No helper function is being called.
NoCall == [fn |-> "none", arg |-> <<>>, ret |-> <<>>]

\* ------------------------------------------------------------------------
\* Initial states
\* ------------------------------------------------------------------------
PromptConfigs == [resolvable : BOOLEAN, variations : 0..MaxVariations]
ProviderConfigs == [name : ProviderNames, models : 1..MaxModels]
\* Provider configurations of an evaluation name distinct providers.
ProviderLists ==
    {provs \in SeqsUpTo(ProviderConfigs, Cardinality(ProviderNames)) :
        \A i, j \in 1..Len(provs) : provs[i].name = provs[j].name => i = j}

ConcValues == (0..MaxConc) \cup {SafetyLimit + 1}

\* The registered providers depend on the environment (API keys, a local
\* server): both providers, or only "openai" (which differs only for an
\* evaluation that names "local").
ProviderManagers(provs) ==
    IF \E j \in 1..Len(provs) : provs[j].name = "local"
    THEN {ProviderNames, {"openai"}}
    ELSE {ProviderNames}

\* (--max-concurrent, batch_settings.max_concurrent): the argument absent and
\* any stored value, or the argument 1 over the stored default.  The
\* sequential executor reads neither.
ConcurrencyInputs(parallel) ==
    IF parallel
    THEN {<<(<<>>), b>> : b \in ConcValues}
         \cup {<<(<<1>>), DefaultMaxConcurrent>>}
    ELSE {<<(<<>>), DefaultMaxConcurrent>>}

\* The analysis features the setup selects by default: all of them.
AllEnabled ==
    [response_metrics |-> TRUE, similarity_analysis |-> TRUE,
     content_analysis |-> TRUE, quality_indicators |-> TRUE]

\* The persisted evaluation and --force: not stored, configured and never
\* run, or completed by an earlier run (then with or without --force).
ConfiguredRow == [status |-> "Configured", results |-> <<>>, completed_at |-> <<>>]

CompletedRow ==
    [status |-> "Completed", results |-> <<"previous">>,
     completed_at |-> <<"earlier">>]

StorageInputs ==
    {<<(<<>>), FALSE>>, <<(<<ConfiguredRow>>), FALSE>>,
     <<(<<CompletedRow>>), FALSE>>, <<(<<CompletedRow>>), TRUE>>}

PlannedCount(cfg) ==
    SumSeq([p \in 1..Len(cfg.prompts) |-> 1 + cfg.prompts[p].variations])
    * SumSeq([j \in 1..Len(cfg.providers) |-> cfg.providers[j].models])

Init ==
    /\ \E ps \in SeqsUpTo(PromptConfigs, MaxPrompts),
          provs \in ProviderLists,
          parallel \in BOOLEAN :
          \E ci \in ConcurrencyInputs(parallel), si \in StorageInputs :
             /\ config = [prompts |-> ps, providers |-> provs,
                          batch_settings |-> [parallel_execution |-> parallel,
                                              max_concurrent |-> ci[2]],
                          analysis_options |-> AllEnabled]
             /\ args = [max_concurrent |-> ci[1], force |-> si[2]]
             /\ stored = si[1]
    /\ PlannedCount(config) <= MaxItems
    /\ provider_manager \in ProviderManagers(config.providers)
    /\ pc = "start"
    /\ delays = 0
    /\ analysis = <<>>
    /\ summary = <<>>
    /\ fn_call = NoCall
    /\ total_executions = 0
    /\ max_concurrent = 0
    /\ prompt_i = 1
    /\ pending_executions = <<>>
    /\ pending_iter = 0
    /\ futures = {}
    /\ executing = 0
    /\ results = <<>>
    /\ progress = 0
    /\ planned = <<>>
    /\ submitted = <<>>
    /\ completed = <<>>

\* ------------------------------------------------------------------------
\* Result sets handed to the analysis engine and the summary reducer
\* ------------------------------------------------------------------------
\* The i-th ExecutionResult of a batch as execute_prompt builds it: a fresh
\* id; tokens and cost only on success.
ResultOf(i, key, status, time, cost) ==
    [item |-> i,
     id |-> i,
     response_time_ms |-> time,
     provider |-> key[1],
     model |-> key[2],
     output |-> IF status = "Success" THEN ResponseContent ELSE <<>>,
     token_count_input |-> IF status = "Success" THEN 1 ELSE 0,
     token_count_output |-> IF status = "Success" THEN 1 ELSE 0,
     cost_usd |-> IF status = "Success" THEN cost ELSE 0,
     error |-> IF status = "Success" THEN "None" ELSE "Some",
     status |-> status]

Statuses == {"Success", "Failed"}

\* A result set from one (key, status, time, cost) choice per result.
ResultChoices(k, Keys, Times, Costs) ==
    [1..k -> Keys \X Statuses \X Times \X Costs]

ResultSeq(f) ==
    [i \in DOMAIN f |-> ResultOf(i, f[i][1], f[i][2], f[i][3], f[i][4])]

OptionSets ==
    [response_metrics : BOOLEAN, similarity_analysis : BOOLEAN,
     content_analysis : BOOLEAN, quality_indicators : BOOLEAN]

PerfTimes == {10, 20, 30, 40}
CostKeys == ProviderNames \X (1..2)
CostValues == {1, 2}
SummaryKeys == {<<"openai", 1>>, <<"local", 1>>}
SummaryTimes == {10, 20}

\* execute at line 72: the executor has returned rs, the evaluation is
\* persisted as Running and its configuration selects the options.
InitAnalysis(rs, options) ==
    /\ results = rs
    /\ config = [prompts |-> <<>>, providers |-> <<>>,
                 batch_settings |-> [parallel_execution |-> FALSE,
                                     max_concurrent |-> DefaultMaxConcurrent],
                 analysis_options |-> options]
    /\ args = [max_concurrent |-> <<>>, force |-> FALSE]
    /\ provider_manager = ProviderNames
    /\ stored = <<[ConfiguredRow EXCEPT !.status = "Running"]>>
    /\ pc = "returned_ok"
    /\ delays = 0
    /\ analysis = <<>>
    /\ summary = <<>>
    /\ fn_call = NoCall
    /\ total_executions = Len(rs)
    /\ max_concurrent = 0
    /\ prompt_i = 1
    /\ pending_executions = <<>>
    /\ pending_iter = 0
    /\ futures = {}
    /\ executing = 0
    /\ progress = Len(rs)
    /\ planned = <<>>
    /\ submitted = <<>>
    /\ completed = <<>>

InitOptions ==
    \E k \in 0..MaxOptResults, options \in OptionSets :
       \E f \in ResultChoices(k, {<<"openai", 1>>}, {10}, {1}) :
          InitAnalysis(ResultSeq(f), options)

InitPerf ==
    \E k \in 0..MaxPerfResults :
       \E f \in ResultChoices(k, {<<"openai", 1>>}, PerfTimes, {1}) :
          InitAnalysis(ResultSeq(f), AllEnabled)

InitCost ==
    \E k \in 0..MaxCostResults :
       \E f \in ResultChoices(k, CostKeys, {10}, CostValues) :
          InitAnalysis(ResultSeq(f), AllEnabled)

InitSummary ==
    \E k \in 0..MaxSummaryResults :
       \E f \in ResultChoices(k, SummaryKeys, SummaryTimes, {1}) :
          InitAnalysis(ResultSeq(f), AllEnabled)

InitSelect ==
    \E k \in 0..MaxSelectResults :
       \E f \in ResultChoices(k, SummaryKeys, {10}, CostValues) :
          InitAnalysis(ResultSeq(f), AllEnabled)

\* A helper function is about to be called with the given argument; no run
\* is in progress.
InitCall(fn, arg) ==
    /\ fn_call = [fn |-> fn, arg |-> arg, ret |-> <<>>]
    /\ pc = "call"
    /\ results = <<>>
    /\ config = [prompts |-> <<>>, providers |-> <<>>,
                 batch_settings |-> [parallel_execution |-> FALSE,
                                     max_concurrent |-> DefaultMaxConcurrent],
                 analysis_options |-> AllEnabled]
    /\ args = [max_concurrent |-> <<>>, force |-> FALSE]
    /\ provider_manager = ProviderNames
    /\ stored = <<>>
    /\ delays = 0
    /\ analysis = <<>>
    /\ summary = <<>>
    /\ total_executions = 0
    /\ max_concurrent = 0
    /\ prompt_i = 1
    /\ pending_executions = <<>>
    /\ pending_iter = 0
    /\ futures = {}
    /\ executing = 0
    /\ progress = 0
    /\ planned = <<>>
    /\ submitted = <<>>
    /\ completed = <<>>

TextAlphabet == {"a", "A", " ", "\n"}
Texts == SeqsUpTo(TextAlphabet, MaxTextLen)

InitSimilarity ==
    \E text1 \in Texts, text2 \in Texts, similarity_type \in SimilarityTypes :
       InitCall("calculate_similarity", <<text1, text2, similarity_type>>)

\* Result sets whose Success results differ in their output too, and cost
\* lists in f64.
OrderTexts == {<<"a">>, <<"a", "\n", "b">>}

WithOutputs(rs, outputs) ==
    [i \in 1..Len(rs) |->
        IF IsSuccess(rs[i]) THEN [rs[i] EXCEPT !.output = outputs[i]] ELSE rs[i]]

InitOrder ==
    \/ \E k \in 0..MaxOrderResults :
          \E f \in ResultChoices(k, SummaryKeys, SummaryTimes, {1}),
             outputs \in [1..k -> OrderTexts] :
             InitAnalysis(WithOutputs(ResultSeq(f), outputs), AllEnabled)
    \/ \E costs \in SeqsUpTo(Gpt4Costs, MaxOrderResults) :
          InitCall("total_cost", costs)

\* Texts for the readability score: words without a vowel, of one and of two
\* vowel groups and one ending a sentence, each occurring a number of times.
ReadabilityWords == {<<"b">>, <<"a">>, <<"a", "b", "a">>, <<"a", ".">>}
WordCounts == {0, 5, 45, 50}

InitReadability ==
    \E text \in [ReadabilityWords -> WordCounts] :
       InitCall("calculate_readability_score", text)

\* Texts for the confidence score: around both length thresholds, with and
\* without structure, holding any of the markers as the source writes them
\* and one in capitals.
ConfidencePhrases ==
    uncertainty_markers \cup definitive_markers \cup {<<"M", "A", "Y", "B", "E">>}
ConfidenceLens == {DetailedLen, DetailedLen + 1, VeryDetailedLen, VeryDetailedLen + 1}

RECURSIVE PhrasesLen(_)
PhrasesLen(phrases) ==
    IF phrases = {} THEN 0
    ELSE LET p == CHOOSE x \in phrases : TRUE
         IN Len(p) + 1 + PhrasesLen(phrases \ {p})

InitConfidence ==
    \E len \in ConfidenceLens, structured \in BOOLEAN,
       phrases \in SUBSET ConfidencePhrases :
       /\ PhrasesLen(phrases) <= len
       /\ InitCall("calculate_confidence_score",
                   [len |-> len, structured |-> structured, phrases |-> phrases])

\* ------------------------------------------------------------------------
\* execute
\* ------------------------------------------------------------------------
\* execute_parallel, lines 109-111: the effective concurrency limit.
EffectiveMaxConcurrent(a, cfg) ==
    Min(unwrap_or(a.max_concurrent, cfg.batch_settings.max_concurrent),
        SafetyLimit)

\* Variant of Start: the batch is entered without persisting status Running.
Start_noRunning ==
    /\ pc = "start"
    /\ IF stored = <<>>
       THEN pc' = "exit_err"
       ELSE IF stored[1].status = "Completed" /\ ~args.force
       THEN pc' = "skipped"
       ELSE pc' = "execute"
    /\ UNCHANGED <<config, args, provider_manager, fn_call, delays, stored, analysis,
                   summary, total_executions, max_concurrent, prompt_i,
                   pending_executions, pending_iter, futures, executing,
                   results, progress, planned, submitted, completed>>

\* Variant of Start: the check for Completed (lines 17-20) left out.
Start_ignoreCompleted ==
    /\ pc = "start"
    /\ IF stored = <<>>
       THEN /\ pc' = "exit_err"
            /\ UNCHANGED stored
       ELSE IF FALSE
       THEN /\ pc' = "skipped"
            /\ UNCHANGED stored
       ELSE LET evaluation == [stored[1] EXCEPT !.status = "Running"]
            IN \E outcome \in StorageOutcomes(evaluation) :
                  /\ stored' = update_evaluation(stored, evaluation, outcome)
                  /\ pc' = IF outcome = "ok" THEN "execute" ELSE "exit_err"
    /\ UNCHANGED <<config, args, provider_manager, fn_call, delays, analysis, summary,
                   total_executions, max_concurrent, prompt_i,
                   pending_executions, pending_iter, futures, executing,
                   results, progress, planned, submitted, completed>>

\* execute, lines 11-30: load the evaluation, return early when it is already
\* completed and --force is absent, otherwise persist status Running.
Start ==
    /\ pc = "start"
    /\ IF stored = <<>>
       THEN /\ pc' = "exit_err"
            /\ UNCHANGED stored
       ELSE IF stored[1].status = "Completed" /\ ~args.force
       THEN /\ pc' = "skipped"
            /\ UNCHANGED stored
       ELSE LET evaluation == [stored[1] EXCEPT !.status = "Running"]
            IN \E outcome \in StorageOutcomes(evaluation) :
                  /\ stored' = update_evaluation(stored, evaluation, outcome)
                  /\ pc' = IF outcome = "ok" THEN "execute" ELSE "exit_err"
    /\ UNCHANGED <<config, args, provider_manager, fn_call, delays, analysis, summary,
                   total_executions, max_concurrent, prompt_i,
                   pending_executions, pending_iter, futures, executing,
                   results, progress, planned, submitted, completed>>

\* execute, lines 32-56: compute the total, set up the progress bar and
\* enter the executor the batch settings select.
Execute ==
    /\ pc = "execute"
    /\ total_executions' = calculate_total_executions(config)
    /\ pc' = IF config.batch_settings.parallel_execution
             THEN "par_prepare" ELSE "seq_resolve"
    /\ max_concurrent' =
           IF config.batch_settings.parallel_execution
           THEN EffectiveMaxConcurrent(args, config)
           ELSE max_concurrent
    /\ UNCHANGED <<config, args, provider_manager, fn_call, delays, stored, analysis,
                   summary, prompt_i, pending_executions,
                   pending_iter, futures, executing, results, progress,
                   planned, submitted, completed>>

\* ------------------------------------------------------------------------
\* execute_parallel
\* ------------------------------------------------------------------------
\* One iteration of "for prompt_config in &evaluation.config.prompts":
\* resolve the prompt (an Err leaves the function) and push its work items.
ParPrepare ==
    /\ pc = "par_prepare"
    /\ prompt_i <= Len(config.prompts)
    /\ LET resolved == resolve_prompt_config(config.prompts[prompt_i])
           items == ExpandPrompt(config, prompt_i, resolved.prompts)
       IN IF resolved.ok
          THEN /\ pending_executions' = pending_executions \o items
               /\ planned' = planned \o items
               /\ prompt_i' = prompt_i + 1
               /\ pc' = pc
          ELSE /\ pc' = "returned_err"
               /\ UNCHANGED <<pending_executions, planned, prompt_i>>
    /\ UNCHANGED <<config, args, provider_manager, fn_call, delays, stored, analysis,
                   summary, total_executions,
                   max_concurrent, pending_iter, futures, executing, results,
                   progress, submitted, completed>>

\* The preparation loop is exhausted: let mut executing = 0, pending_iter.
ParPrepared ==
    /\ pc = "par_prepare"
    /\ prompt_i > Len(config.prompts)
    /\ executing' = 0
    /\ pending_iter' = 0
    /\ pc' = "par_start"
    /\ UNCHANGED <<config, args, provider_manager, fn_call, delays, stored, analysis,
                   summary, total_executions,
                   max_concurrent, prompt_i, pending_executions, futures,
                   results, progress, planned, submitted, completed>>

\* Variant of MayStart: the guard off by one (<= for <).
MayStart_offByOne(n, limit) == n <= limit

\* The guard of the initial batch: while executing < max_concurrent.
MayStart(n, limit) == n < limit

\* One iteration of the initial batch (lines 139-153): push the future of
\* the next pending item, or leave the loop.
ParStartInitial ==
    /\ pc = "par_start"
    /\ IF MayStart(executing, max_concurrent)
          /\ pending_iter < Len(pending_executions)
       THEN /\ futures' = futures \cup {pending_executions[pending_iter + 1]}
            /\ submitted' = Append(submitted, pending_executions[pending_iter + 1])
            /\ pending_iter' = pending_iter + 1
            /\ executing' = executing + 1
            /\ pc' = pc
       ELSE /\ pc' = "par_drain"
            /\ UNCHANGED <<futures, submitted, pending_iter, executing>>
    /\ UNCHANGED <<config, args, provider_manager, fn_call, delays, stored, analysis,
                   summary, total_executions,
                   max_concurrent, prompt_i, pending_executions, results,
                   progress, planned, completed>>

\* Variant of ParComplete: executing is not decremented (line 164 left out).
ParComplete_noDecrement ==
    /\ pc = "par_drain"
    /\ \E item \in futures, answer \in ProviderAnswers :
          LET call == execute_prompt(config, provider_manager, item, answer)
              more == pending_iter < Len(pending_executions)
          IN /\ results' = PushResult(results, call)
             /\ completed' = Append(completed,
                    [item |-> item,
                     outcome |-> OutcomeOf(config, provider_manager, item, answer)])
             /\ progress' = progress + 1
             /\ IF more
                THEN /\ futures' = (futures \ {item})
                                   \cup {pending_executions[pending_iter + 1]}
                     /\ submitted' = Append(submitted,
                                            pending_executions[pending_iter + 1])
                     /\ pending_iter' = pending_iter + 1
                     /\ executing' = executing + 1
                ELSE /\ futures' = futures \ {item}
                     /\ executing' = executing
                     /\ UNCHANGED <<submitted, pending_iter>>
    /\ UNCHANGED <<config, args, provider_manager, fn_call, delays, stored, analysis,
                   summary, pc, total_executions,
                   max_concurrent, prompt_i, pending_executions, planned>>

\* One iteration of "while !futures.is_empty()" (lines 156-179): some call
\* in flight completes, its result is matched, progress advances, and the
\* next pending item, if any, is started.
ParComplete ==
    /\ pc = "par_drain"
    /\ \E item \in futures, answer \in ProviderAnswers :
          LET call == execute_prompt(config, provider_manager, item, answer)
              more == pending_iter < Len(pending_executions)
          IN /\ results' = PushResult(results, call)
             /\ completed' = Append(completed,
                    [item |-> item,
                     outcome |-> OutcomeOf(config, provider_manager, item, answer)])
             /\ progress' = progress + 1
             /\ IF more
                THEN /\ futures' = (futures \ {item})
                                   \cup {pending_executions[pending_iter + 1]}
                     /\ submitted' = Append(submitted,
                                            pending_executions[pending_iter + 1])
                     /\ pending_iter' = pending_iter + 1
                     /\ executing' = (executing - 1) + 1
                ELSE /\ futures' = futures \ {item}
                     /\ executing' = executing - 1
                     /\ UNCHANGED <<submitted, pending_iter>>
    /\ UNCHANGED <<config, args, provider_manager, fn_call, delays, stored, analysis,
                   summary, pc, total_executions,
                   max_concurrent, prompt_i, pending_executions, planned>>

\* futures is empty: Ok(results).
ParReturn ==
    /\ pc = "par_drain"
    /\ futures = {}
    /\ pc' = "returned_ok"
    /\ UNCHANGED <<config, args, provider_manager, fn_call, delays, stored, analysis,
                   summary, total_executions,
                   max_concurrent, prompt_i, pending_executions, pending_iter,
                   futures, executing, results, progress, planned, submitted,
                   completed>>

\* ------------------------------------------------------------------------
\* execute_sequential
\* ------------------------------------------------------------------------
\* "for prompt_config in &evaluation.config.prompts" (lines 191-192):
\* resolve the next prompt config, or return Ok(results) after the last.
SeqResolve ==
    /\ pc = "seq_resolve"
    /\ IF prompt_i > Len(config.prompts)
       THEN /\ pc' = "returned_ok"
            /\ UNCHANGED <<pending_executions, pending_iter, planned>>
       ELSE LET resolved == resolve_prompt_config(config.prompts[prompt_i])
                items == ExpandPrompt(config, prompt_i, resolved.prompts)
            IN IF resolved.ok
               THEN /\ pending_executions' = items
                    /\ pending_iter' = 0
                    /\ planned' = planned \o items
                    /\ pc' = "seq_call"
               ELSE /\ pc' = "returned_err"
                    /\ UNCHANGED <<pending_executions, pending_iter, planned>>
    /\ UNCHANGED <<config, args, provider_manager, fn_call, delays, stored, analysis,
                   summary, total_executions,
                   max_concurrent, prompt_i, futures, executing, results,
                   progress, submitted, completed>>

\* The inner loops reach the next item and call execute_single_prompt
\* (lines 194-203), or the items of this prompt config are exhausted.
SeqCall ==
    /\ pc = "seq_call"
    /\ IF pending_iter < Len(pending_executions)
       THEN /\ futures' = {pending_executions[pending_iter + 1]}
            /\ submitted' = Append(submitted, pending_executions[pending_iter + 1])
            /\ pending_iter' = pending_iter + 1
            /\ pc' = "seq_await"
            /\ UNCHANGED prompt_i
       ELSE /\ prompt_i' = prompt_i + 1
            /\ pc' = "seq_resolve"
            /\ UNCHANGED <<futures, submitted, pending_iter>>
    /\ UNCHANGED <<config, args, provider_manager, fn_call, delays, stored, analysis,
                   summary, total_executions,
                   max_concurrent, pending_executions, executing, results,
                   progress, planned, completed>>

\* Variant of SeqComplete: a Failed result ends the batch with an error.
SeqComplete_abortOnFailure ==
    /\ pc = "seq_await"
    /\ \E item \in futures, answer \in ProviderAnswers :
          LET call == execute_prompt(config, provider_manager, item, answer)
          IN /\ results' = PushResult(results, call)
             /\ completed' = Append(completed,
                    [item |-> item,
                     outcome |-> OutcomeOf(config, provider_manager, item, answer)])
             /\ progress' = progress + 1
             /\ futures' = {}
             /\ pc' = IF call.ok /\ call.result.status = "Failed"
                      THEN "returned_err" ELSE "seq_sleep"
    /\ UNCHANGED <<config, args, provider_manager, fn_call, delays, stored, analysis,
                   summary, total_executions,
                   max_concurrent, prompt_i, pending_executions, pending_iter,
                   executing, planned, submitted>>

\* Variant of SeqComplete: the next item follows without the delay.
SeqComplete_noDelay ==
    /\ pc = "seq_await"
    /\ \E item \in futures, answer \in ProviderAnswers :
          LET call == execute_prompt(config, provider_manager, item, answer)
          IN /\ results' = PushResult(results, call)
             /\ completed' = Append(completed,
                    [item |-> item,
                     outcome |-> OutcomeOf(config, provider_manager, item, answer)])
             /\ progress' = progress + 1
             /\ futures' = {}
             /\ pc' = "seq_call"
    /\ UNCHANGED <<config, args, provider_manager, fn_call, delays, stored, analysis,
                   summary, total_executions,
                   max_concurrent, prompt_i, pending_executions, pending_iter,
                   executing, planned, submitted>>

\* The awaited call returns (lines 203-208): match, then progress.inc(1).
SeqComplete ==
    /\ pc = "seq_await"
    /\ \E item \in futures, answer \in ProviderAnswers :
          LET call == execute_prompt(config, provider_manager, item, answer)
          IN /\ results' = PushResult(results, call)
             /\ completed' = Append(completed,
                    [item |-> item,
                     outcome |-> OutcomeOf(config, provider_manager, item, answer)])
             /\ progress' = progress + 1
             /\ futures' = {}
             /\ pc' = "seq_sleep"
    /\ UNCHANGED <<config, args, provider_manager, fn_call, delays, stored, analysis,
                   summary, total_executions,
                   max_concurrent, prompt_i, pending_executions, pending_iter,
                   executing, planned, submitted>>

\* tokio::time::sleep(100 ms) elapses (line 211).
SeqSleep ==
    /\ pc = "seq_sleep"
    /\ pc' = "seq_call"
    /\ delays' = delays + 1
    /\ UNCHANGED <<config, args, provider_manager, fn_call, stored, analysis, summary,
                   total_executions, max_concurrent, prompt_i,
                   pending_executions, pending_iter, futures, executing,
                   results, progress, planned, submitted, completed>>

\* ------------------------------------------------------------------------
\* execute, after the executor has returned Ok
\* ------------------------------------------------------------------------
\* Lines 72-75: analysis_engine.analyze_results(&all_results, options).
Analyze ==
    /\ pc = "returned_ok"
    /\ analysis' = <<analyze_results(results, config.analysis_options)>>
    /\ pc' = "analyzed"
    /\ UNCHANGED <<config, args, provider_manager, fn_call, delays, stored, summary,
                   total_executions, max_concurrent, prompt_i,
                   pending_executions, pending_iter, futures, executing,
                   results, progress, planned, submitted, completed>>

\* Lines 77-78: generate_summary(&all_results, &analysis).
Summarize ==
    /\ pc = "analyzed"
    /\ summary' = <<generate_summary(results, analysis[1])>>
    /\ pc' = "summarized"
    /\ UNCHANGED <<config, args, provider_manager, fn_call, delays, stored, analysis,
                   total_executions, max_concurrent, prompt_i,
                   pending_executions, pending_iter, futures, executing,
                   results, progress, planned, submitted, completed>>

\* Lines 82-92: put the results on the evaluation, mark it Completed with
\* completed_at = now, and persist it.
Store ==
    /\ pc = "summarized"
    /\ LET evaluation ==
               [status |-> "Completed",
                results |-> <<[executions |-> results, analysis |-> analysis[1],
                              summary |-> summary[1]]>>,
                completed_at |-> <<"now">>]
       IN \E outcome \in StorageOutcomes(evaluation) :
             /\ stored' = update_evaluation(stored, evaluation, outcome)
             /\ pc' = IF outcome = "ok" THEN "done" ELSE "store_err"
    /\ UNCHANGED <<config, args, provider_manager, fn_call, delays, analysis, summary,
                   total_executions, max_concurrent, prompt_i,
                   pending_executions, pending_iter, futures, executing,
                   results, progress, planned, submitted, completed>>

Next ==
    \/ Start
    \/ Execute
    \/ ParPrepare
    \/ ParPrepared
    \/ ParStartInitial
    \/ ParComplete
    \/ ParReturn
    \/ SeqResolve
    \/ SeqCall
    \/ SeqComplete
    \/ SeqSleep
    \/ Analyze
    \/ Summarize
    \/ Store

Spec == Init /\ [][Next]_vars

\* ------------------------------------------------------------------------
\* Calls of the helper functions
\* ------------------------------------------------------------------------
Return(value) ==
    /\ pc = "call"
    /\ fn_call' = [fn_call EXCEPT !.ret = <<value>>]
    /\ pc' = "called"
    /\ UNCHANGED <<config, args, provider_manager, delays, stored, analysis,
                   summary, total_executions, max_concurrent, prompt_i,
                   pending_executions, pending_iter, futures, executing,
                   results, progress, planned, submitted, completed>>

CalculateSimilarity ==
    /\ fn_call.fn = "calculate_similarity"
    /\ Return(calculate_similarity(fn_call.arg[1], fn_call.arg[2], fn_call.arg[3]))

NextSimilarity == CalculateSimilarity

SpecSimilarity == InitSimilarity /\ [][NextSimilarity]_vars

\* compute_cost_breakdown, line 208: the total of the costs in f64.
TotalCost ==
    /\ fn_call.fn = "total_cost"
    /\ Return(F64Sum(fn_call.arg))

NextOrder ==
    \/ Analyze
    \/ TotalCost

SpecOrder == InitOrder /\ [][NextOrder]_vars

CalculateReadability ==
    /\ fn_call.fn = "calculate_readability_score"
    /\ Return(calculate_readability_score(fn_call.arg))

NextReadability == CalculateReadability

SpecReadability == InitReadability /\ [][NextReadability]_vars

CalculateConfidence ==
    /\ fn_call.fn = "calculate_confidence_score"
    /\ Return(calculate_confidence_score(fn_call.arg))

NextConfidence == CalculateConfidence

SpecConfidence == InitConfidence /\ [][NextConfidence]_vars

\* execute, lines 72-78, over a given result set.
NextAnalysis ==
    \/ Analyze
    \/ Summarize

SpecOptions == InitOptions /\ [][NextAnalysis]_vars

SpecPerf == InitPerf /\ [][NextAnalysis]_vars

SpecCost == InitCost /\ [][NextAnalysis]_vars

SpecSummary == InitSummary /\ [][NextAnalysis]_vars

SpecSelect == InitSelect /\ [][NextAnalysis]_vars

\* ------------------------------------------------------------------------
\* Definitions shared by the properties
\* ------------------------------------------------------------------------
Parallel == config.batch_settings.parallel_execution

\* The limit the caller supplied: the argument if given, else the stored one.
CallerLimit ==
    IF args.max_concurrent # <<>> THEN args.max_concurrent[1]
    ELSE config.batch_settings.max_concurrent

ClampedLimit == IF CallerLimit > 20 THEN 20 ELSE CallerLimit

AllResolvable == \A p \in 1..Len(config.prompts) : config.prompts[p].resolvable

Items(s) == {s[i] : i \in 1..Len(s)}

CompletedItems == {completed[i].item : i \in 1..Len(completed)}

Occurrences(s, x) == Cardinality({i \in 1..Len(s) : s[i] = x})

CountOutcome(o) == Cardinality({i \in 1..Len(completed) : completed[i].outcome = o})

CountStatus(st) == Cardinality({i \in 1..Len(results) : results[i].status = st})

\* The work items of the whole configuration, as a set.
AllWorkItems ==
    UNION {{[prompt |-> pj[1], rendering |-> r, provider |-> pj[2], model |-> m] :
               r \in 0..config.prompts[pj[1]].variations,
               m \in 1..config.providers[pj[2]].models} :
           pj \in (1..Len(config.prompts)) \X (1..Len(config.providers))}

\* Planned order: prompt, then rendering (base = 0 first), provider, model.
Before(a, b) ==
    \/ a.prompt < b.prompt
    \/ a.prompt = b.prompt /\ a.rendering < b.rendering
    \/ a.prompt = b.prompt /\ a.rendering = b.rendering /\ a.provider < b.provider
    \/ a.prompt = b.prompt /\ a.rendering = b.rendering /\ a.provider = b.provider
       /\ a.model < b.model

InOrder(s) == \A i, j \in 1..Len(s) : i < j => Before(s[i], s[j])

IsPrefix(s, t) == Len(s) <= Len(t) /\ \A i \in 1..Len(s) : s[i] = t[i]

\* The planner has run over every prompt config without an error.
PlanningDone ==
    \/ pc \in {"par_start", "par_drain"}
    \/ pc = "returned_ok"
    \/ pc \in {"analyzed", "summarized", "done", "store_err"}

\* execute has passed line 33, where total_executions is computed.
TotalComputed == pc \notin {"start", "skipped", "exit_err", "execute"}

\* The completed calls that reached Provider::execute, in completion order.
GatewayCalls == SelectSeq(completed, LAMBDA c : c.outcome # "unavailable")

\* ------------------------------------------------------------------------
\* Properties
\* ------------------------------------------------------------------------

C2_InFlightBounded ==
    Parallel => Cardinality(futures) <= ClampedLimit

\* C2 witness: the limit is reached while work items are still waiting and
\* calls have already completed.
C2_Witness ==
    /\ Parallel
    /\ pc = "par_drain"
    /\ ClampedLimit = 2
    /\ Cardinality(futures) = 2
    /\ pending_iter < Len(pending_executions)
    /\ Len(completed) > 0

\* C3: for every limit C the interface accepts and every non-empty work item
\* sequence, execute_parallel has started and completed the call of every
\* work item when it returns.
C3_EveryItemRuns ==
    (Parallel /\ pc = "returned_ok" /\ Len(planned) > 0)
        => /\ Items(submitted) = Items(planned)
           /\ CompletedItems = Items(planned)

\* C4: a failing gateway call never aborts the batch: with an effective
\* limit of at least 1, whichever calls fail, the executor does not return
\* an error and on return every work item of the configuration has been
\* started and completed, in both modes.
C4_FailureNeverAborts ==
    (AllResolvable /\ (Parallel => ClampedLimit >= 1))
        => /\ pc # "returned_err"
           /\ pc = "returned_ok" => /\ Items(submitted) = AllWorkItems
                                    /\ CompletedItems = AllWorkItems

\* C4 witness: a sequential run returned Ok although its first call failed,
\* and calls after the failure succeeded.
C4_Witness ==
    /\ ~Parallel
    /\ pc = "returned_ok"
    /\ Len(completed) >= 3
    /\ completed[1].outcome = "err"
    /\ completed[Len(completed)].outcome = "ok"

\* C5: every failed gateway call is recorded as exactly one Failed result
\* with the error present, empty output, zero tokens and zero cost, every
\* successful call as one Success result without error; status = Failed
\* exactly when the error is present; a run of N items of which N/2 calls
\* fail and N/2 succeed returns N results, N/2 Failed and N/2 Success.
C5_FailuresRecorded ==
    /\ Len(results) = Len(GatewayCalls)
    /\ \A k \in 1..Len(results) :
          /\ k <= Len(GatewayCalls)
          /\ results[k].item = GatewayCalls[k].item
          /\ (results[k].status = "Failed") <=> (GatewayCalls[k].outcome = "err")
          /\ (results[k].status = "Success") <=> (GatewayCalls[k].outcome = "ok")
          /\ (results[k].status = "Failed") <=> (results[k].error = "Some")
          /\ results[k].status = "Failed" =>
                /\ results[k].output = <<>>
                /\ results[k].token_count_input = 0
                /\ results[k].token_count_output = 0
                /\ results[k].cost_usd = 0
    /\ (/\ pc = "returned_ok"
        /\ 2 * CountOutcome("err") = Len(planned)
        /\ 2 * CountOutcome("ok") = Len(planned))
           => /\ Len(results) = Len(planned)
              /\ 2 * CountStatus("Failed") = Len(planned)
              /\ 2 * CountStatus("Success") = Len(planned)

\* C5 witness: a sequential run of 4 work items returned, with 2 failed and
\* 2 successful calls.
C5_Witness ==
    /\ ~Parallel
    /\ pc = "returned_ok"
    /\ Len(planned) = 4
    /\ CountOutcome("err") = 2
    /\ CountOutcome("ok") = 2
    /\ CountStatus("Failed") = 2

\* C6: the progress counter always equals the number of completed items,
\* never exceeds the total of calculate_total_executions, and equals that
\* total when the executor returns.
C6_ProgressCounter ==
    /\ progress = Len(completed)
    /\ TotalComputed => progress <= total_executions
    /\ pc = "returned_ok" => progress = total_executions

\* C7: when a prompt source cannot be resolved the run fails before any
\* gateway call has been made, in both modes and whichever prompt it is.
C7_NoCallBeforePlanningError ==
    pc = "returned_err" => /\ Len(submitted) = 0
                           /\ Len(completed) = 0

\* C8: the planner emits work items ordered by prompt config, then rendering
\* (base first, variations in declared order), then provider config, then
\* model, each combination once; both executors submit the items in that
\* order.
C8_PlannedOrder ==
    /\ InOrder(planned)
    /\ PlanningDone => Items(planned) = AllWorkItems
    /\ IsPrefix(submitted, planned)

\* C8 witness: a parallel run over 2 renderings and 2 providers has
\* submitted all 4 work items and returned.
C8_Witness ==
    /\ Parallel
    /\ pc = "returned_ok"
    /\ Len(config.prompts) = 1
    /\ config.prompts[1].variations = 1
    /\ Len(config.providers) = 2
    /\ Len(submitted) = 4

\* C9: calculate_total_executions is the sum over prompts of (1 + variation
\* count) times the sum over providers of the model count, and equals the
\* number of work items the planner emits in both executors.
C9_TotalExecutions ==
    /\ TotalComputed => total_executions = PlannedCount(config)
    /\ PlanningDone => Len(planned) = total_executions

\* C9 witness: 2 prompts without variations x 2 providers x 1 model gives 4.
C9_Witness ==
    /\ PlanningDone
    /\ Len(config.prompts) = 2
    /\ \A p \in 1..2 : config.prompts[p].variations = 0
    /\ Len(config.providers) = 2
    /\ \A j \in 1..2 : config.providers[j].models = 1
    /\ total_executions = 4
    /\ Len(planned) = 4

\* C10: each work item is passed to the gateway exactly once per run: never
\* twice, never again after a failure, and once when the executor returns.
C10_ExactlyOnce ==
    /\ \A it \in Items(planned) : Occurrences(submitted, it) <= 1
    /\ \A i, j \in 1..Len(completed) :
          completed[i].item = completed[j].item => i = j
    /\ pc = "returned_ok" =>
          \A it \in Items(planned) : Occurrences(submitted, it) = 1

\* The item sequence of the results accumulator.
ResultItems == [k \in 1..Len(results) |-> results[k].item]

\* C11: in sequential mode at most one gateway call is in flight; the call
\* of the next work item starts only when no call is in flight and, for every
\* item submitted so far, the call has completed, the result of every call
\* that reached the provider is in the accumulator, progress has been
\* incremented and the 100 ms delay has elapsed; the results are in planned
\* order.
C11_SequentialOneAtATime ==
    /\ [](~Parallel => /\ Cardinality(futures) <= 1
                       /\ InOrder(ResultItems)
                       /\ \A k \in 1..Len(completed) :
                              completed[k].item = submitted[k])
    /\ [][(~Parallel /\ submitted' # submitted)
             => /\ futures = {}
                /\ Len(completed) = Len(submitted)
                /\ Len(results) = Len(GatewayCalls)
                /\ progress = Len(submitted)
                /\ delays = Len(submitted)
                /\ Len(submitted') = Len(submitted) + 1]_vars

\* C11 witness: a sequential run of 3 or more items returned after as many
\* delays, one of its calls having failed.
C11_Witness ==
    /\ ~Parallel
    /\ pc = "returned_ok"
    /\ Len(submitted) >= 3
    /\ delays = Len(submitted)
    /\ Len(results) = Len(submitted)
    /\ CountStatus("Failed") = 1

\* C12: in parallel mode the i-th result belongs to the i-th gateway call to
\* complete, for every interleaving of completions; the order need not be
\* the submission order.
C12_CompletionOrder ==
    Parallel => /\ Len(results) = Len(GatewayCalls)
                /\ \A k \in 1..Len(results) :
                       /\ k <= Len(GatewayCalls)
                       /\ results[k].item = GatewayCalls[k].item
                /\ (\A k \in 1..Len(completed) : completed[k].outcome # "unavailable")
                       => ResultItems = [k \in 1..Len(completed) |-> completed[k].item]

\* C12 witness: a parallel run returned all its results, the item submitted
\* last being the first result and the item submitted first the last.
C12_Witness ==
    /\ Parallel
    /\ pc = "returned_ok"
    /\ Len(results) = 3
    /\ Len(submitted) = 3
    /\ results[1].item = submitted[3]
    /\ results[3].item = submitted[1]

\* C13: analyze_results and generate_summary are invoked only after every
\* planned work item has completed or failed: no call is in flight and no
\* work item is pending when the analysis starts.
C13_AnalysisAfterBarrier ==
    pc \in {"analyzed", "summarized", "done", "store_err"}
        => /\ futures = {}
           /\ CompletedItems = Items(planned)
           /\ Items(submitted) = Items(planned)

\* C14: the evaluation record receives results, analysis and summary only
\* after the batch and the analysis have finished; the persisted status is
\* Running before any gateway call and throughout the batch, then Completed;
\* in every persisted state Completed implies results present and
\* completed_at set.
C14_PersistedStatus ==
    /\ [](Len(stored) = 1 =>
            /\ stored[1].status = "Completed"
                   => /\ Len(stored[1].results) = 1
                      /\ Len(stored[1].completed_at) = 1
            /\ pc \in {"par_prepare", "par_start", "par_drain", "seq_resolve",
                        "seq_call", "seq_await", "seq_sleep", "returned_ok",
                        "returned_err", "analyzed", "summarized"}
                   => stored[1].status = "Running"
            /\ (submitted # <<>> /\ pc \notin {"done", "store_err"})
                   => stored[1].status = "Running"
            /\ stored[1].completed_at = <<"now">>
                   => /\ pc \in {"done", "store_err"}
                      /\ futures = {}
                      /\ Len(analysis) = 1
                      /\ Len(summary) = 1
            /\ pc = "done"
                   => /\ stored[1].status = "Completed"
                      /\ stored[1].results[1].executions = results
                      /\ stored[1].results[1].analysis = analysis[1]
                      /\ stored[1].results[1].summary = summary[1])
    /\ [][(Len(stored) = 1 /\ Len(stored') = 1
            /\ stored'[1].status # stored[1].status)
             => \/ /\ stored'[1].status = "Running"
                   /\ submitted = <<>>
                   /\ pc = "start"
                \/ /\ stored'[1].status = "Completed"
                   /\ stored[1].status = "Running"
                   /\ pc = "summarized"]_vars

\* C14 witness: a run of 2 or more items over a configured evaluation has
\* persisted status Completed with its results.
C14_Witness ==
    /\ pc = "done"
    /\ ~args.force
    /\ Len(stored) = 1
    /\ stored[1].status = "Completed"
    /\ Len(stored[1].results[1].executions) >= 2
    /\ stored[1].completed_at = <<"now">>

\* ------------------------------------------------------------------------
\* Properties of the analysis and of the summary
\* ------------------------------------------------------------------------
\* The ids of the Success results, as a set and in input order.
SuccessIds == {results[i].id : i \in {j \in 1..Len(results) : IsSuccess(results[j])}}

SuccessIdSeq ==
    LET successful == SelectSeq(results, IsSuccess)
    IN [k \in 1..Len(successful) |-> successful[k].id]

IdsOf(entries) == [k \in 1..Len(entries) |-> entries[k].execution_id]

PairOf(e) == {e.execution_id_1, e.execution_id_2}

\* C15: with similarity analysis enabled, a result set with k Success
\* results yields exactly k*(k-1)/2 similarity entries, each between two
\* distinct Success results, no unordered pair twice, none with a Failed
\* result.
C15_SimilarityPairs ==
    (Len(analysis) = 1 /\ config.analysis_options.similarity_analysis)
        => LET m == analysis[1].similarity_matrix
               k == Cardinality(SuccessIds)
           IN /\ 2 * Len(m) = k * (k - 1)
              /\ \A a \in 1..Len(m) :
                     /\ m[a].execution_id_1 # m[a].execution_id_2
                     /\ m[a].execution_id_1 \in SuccessIds
                     /\ m[a].execution_id_2 \in SuccessIds
              /\ \A a, b \in 1..Len(m) : PairOf(m[a]) = PairOf(m[b]) => a = b

\* C15 witness: 3 Success results and 1 Failed result give 3 entries.
C15_Witness ==
    /\ Len(analysis) = 1
    /\ config.analysis_options.similarity_analysis
    /\ Len(results) = 4
    /\ Cardinality(SuccessIds) = 3
    /\ Len(analysis[1].similarity_matrix) = 3

\* C16 as stated: analyze_results returns one ResponseMetrics, one
\* ContentAnalysis and one QualityScore per Success result, carrying its id,
\* in input order, and none for a Failed result, for every result set.
C16_OnePerSuccess ==
    Len(analysis) = 1
        => /\ IdsOf(analysis[1].response_metrics) = SuccessIdSeq
           /\ IdsOf(analysis[1].content_analysis) = SuccessIdSeq
           /\ IdsOf(analysis[1].quality_indicators) = SuccessIdSeq

\* C16 amended: each of the three collections holds one entry per Success
\* result, with its id and in input order, when its analysis option is
\* enabled, and is empty when the option is disabled.
C16_OnePerSuccessWhenEnabled ==
    Len(analysis) = 1
        => LET o == config.analysis_options
               Expected(enabled) == IF enabled THEN SuccessIdSeq ELSE <<>>
           IN /\ IdsOf(analysis[1].response_metrics) = Expected(o.response_metrics)
              /\ IdsOf(analysis[1].content_analysis) = Expected(o.content_analysis)
              /\ IdsOf(analysis[1].quality_indicators) = Expected(o.quality_indicators)

\* C16 witness: all options enabled, 2 Success results around a Failed one.
C16_Witness ==
    /\ Len(analysis) = 1
    /\ config.analysis_options = AllEnabled
    /\ Len(results) = 3
    /\ results[2].status = "Failed"
    /\ IdsOf(analysis[1].response_metrics) = <<1, 3>>
    /\ IdsOf(analysis[1].quality_indicators) = <<1, 3>>

\* The cost of the results a test selects, and the sum of a map's values.
CostWhere(Test(_)) ==
    LET sel == SelectSeq(results, Test)
    IN SumSeq([i \in 1..Len(sel) |-> sel[i].cost_usd])

RECURSIVE MapSum(_)
MapSum(map) ==
    IF DOMAIN map = {} THEN 0
    ELSE LET k == CHOOSE x \in DOMAIN map : TRUE
         IN map[k] + MapSum([x \in DOMAIN map \ {k} |-> map[x]])

\* C17: total_cost is the sum of cost over all results whatever their
\* status; the values of cost_by_provider and those of cost_by_model each sum
\* to total_cost; each entry is the sum of cost of exactly the results with
\* its key, and every key of a result has an entry.
C17_CostAdditive ==
    Len(analysis) = 1
        => LET cb == analysis[1].cost_breakdown
               AnyResult(r) == TRUE
           IN /\ cb.total_cost = CostWhere(AnyResult)
              /\ MapSum(cb.cost_by_provider) = cb.total_cost
              /\ MapSum(cb.cost_by_model) = cb.total_cost
              /\ DOMAIN cb.cost_by_provider
                     = {results[i].provider : i \in 1..Len(results)}
              /\ DOMAIN cb.cost_by_model
                     = {ModelKey(results[i]) : i \in 1..Len(results)}
              /\ \A q \in DOMAIN cb.cost_by_provider :
                     LET OfProvider(r) == r.provider = q
                     IN cb.cost_by_provider[q] = CostWhere(OfProvider)
              /\ \A q \in DOMAIN cb.cost_by_model :
                     LET OfModel(r) == ModelKey(r) = q
                     IN cb.cost_by_model[q] = CostWhere(OfModel)

\* C17 witness: 3 results of one provider, two models, one of them Failed.
C17_Witness ==
    /\ Len(analysis) = 1
    /\ Len(results) = 3
    /\ \A i \in 1..3 : results[i].provider = "openai"
    /\ results[1].model = 1 /\ results[2].model = 2 /\ results[3].model = 1
    /\ results[1].cost_usd = 2 /\ results[2].status = "Failed"
    /\ results[3].cost_usd = 1
    /\ analysis[1].cost_breakdown.total_cost = 3
    /\ analysis[1].cost_breakdown.cost_by_provider["openai"] = 3
    /\ analysis[1].cost_breakdown.cost_by_model[<<"openai", 1>>] = 3
    /\ analysis[1].cost_breakdown.cost_by_model[<<"openai", 2>>] = 0

\* C18: success_rate = successes / total * 100 over all results, 0.0 for an
\* empty result set, 100.0 when every result is Success; total_executions
\* counts every result and failed_executions = total_executions - successes;
\* 2 prompts x 2 providers x 1 model with one failing call gives 4 results,
\* 3 Success and 1 Failed, and success_rate 75.0.
C18_SuccessRate ==
    Len(analysis) = 1
        => LET ps == analysis[1].performance_stats
               successes == CountStatus("Success")
           IN /\ ps.total_executions = Len(results)
              /\ ps.failed_executions = Len(results) - successes
              /\ Len(results) = 0 => RatEq(ps.success_rate, <<0, 1>>)
              /\ Len(results) > 0
                     => RatEq(ps.success_rate, <<successes * 100, Len(results)>>)
              /\ (Len(results) > 0 /\ successes = Len(results))
                     => RatEq(ps.success_rate, <<100, 1>>)
              /\ (/\ Len(config.prompts) = 2
                  /\ \A p \in 1..Len(config.prompts) :
                         /\ config.prompts[p].resolvable
                         /\ config.prompts[p].variations = 0
                  /\ Len(config.providers) = 2
                  /\ \A j \in 1..Len(config.providers) :
                         /\ config.providers[j].models = 1
                         /\ config.providers[j].name \in provider_manager
                  /\ Parallel => ClampedLimit >= 1
                  /\ CountOutcome("err") = 1)
                     => /\ Len(results) = 4
                        /\ successes = 3
                        /\ CountStatus("Failed") = 1
                        /\ RatEq(ps.success_rate, <<75, 1>>)

\* C18 witness: the analysed parallel run of 2 x 2 x 1 items of which the
\* call completing second failed.
C18_Witness ==
    /\ pc = "analyzed"
    /\ Parallel
    /\ Len(config.prompts) = 2
    /\ Len(config.providers) = 2
    /\ Len(results) = 4
    /\ results[2].status = "Failed"
    /\ CountStatus("Success") = 3
    /\ RatEq(analysis[1].performance_stats.success_rate, <<75, 1>>)

\* The k-th smallest response time among all results, by rank.
ResponseTimes == [i \in 1..Len(results) |-> results[i].response_time_ms]

Kth(k) ==
    CHOOSE v \in Items(ResponseTimes) :
        /\ Cardinality({i \in 1..Len(results) : ResponseTimes[i] < v}) < k
        /\ Cardinality({i \in 1..Len(results) : ResponseTimes[i] <= v}) >= k

\* C19: the median response time is over all results: the middle element
\* of the sorted times for an odd count, the mean of the two middle elements
\* for an even count, 0 for none, whatever the input order; [10,20,30,40]
\* gives 25.0 and [10,20,30] gives 20.0; min and max are 0 for the empty
\* set.
C19_Median ==
    Len(analysis) = 1
        => LET ps == analysis[1].performance_stats
               n == Len(results)
           IN /\ n = 0 => /\ RatEq(ps.median_response_time, <<0, 1>>)
                          /\ ps.min_response_time = 0
                          /\ ps.max_response_time = 0
              /\ (n > 0 /\ n % 2 = 1)
                     => RatEq(ps.median_response_time, <<Kth((n + 1) \div 2), 1>>)
              /\ (n > 0 /\ n % 2 = 0)
                     => RatEq(ps.median_response_time,
                              <<Kth(n \div 2) + Kth((n \div 2) + 1), 2>>)
              /\ (n = 4 /\ Items(ResponseTimes) = {10, 20, 30, 40})
                     => RatEq(ps.median_response_time, <<25, 1>>)
              /\ (n = 3 /\ Items(ResponseTimes) = {10, 20, 30})
                     => RatEq(ps.median_response_time, <<20, 1>>)
              /\ n > 0 => /\ ps.min_response_time = Kth(1)
                          /\ ps.max_response_time = Kth(n)

\* C19 witness: the times 40, 10, 30, 20 in that order, the slowest result
\* Failed, with median 25.
C19_Witness ==
    /\ Len(analysis) = 1
    /\ ResponseTimes = <<40, 10, 30, 20>>
    /\ results[1].status = "Failed"
    /\ results[2].status = "Success"
    /\ RatEq(analysis[1].performance_stats.median_response_time, <<25, 1>>)

\* Per provider/model key: the results, the Success results and the sum of
\* response times, counted over the result set.
KeysOf == {ModelKey(results[i]) : i \in 1..Len(results)}

TotalOf(q) == Cardinality({i \in 1..Len(results) : ModelKey(results[i]) = q})

SuccessesOf(q) ==
    Cardinality({i \in 1..Len(results) :
                    ModelKey(results[i]) = q /\ IsSuccess(results[i])})

TimeSumOf(q) ==
    LET sel == SelectSeq(results, LAMBDA r : ModelKey(r) = q)
    IN SumSeq([i \in 1..Len(sel) |-> sel[i].response_time_ms])

Qualifying == {q \in KeysOf : SuccessesOf(q) * 5 >= TotalOf(q) * 4}

\* C20: every value best_performing_model can take is a provider/model key
\* whose success rate over all its results is at least 0.8 and whose mean
\* response time over all its results is the lowest among the keys reaching
\* 0.8; it is None exactly when no key reaches 0.8.
C20_BestPerformingModel ==
    Len(summary) = 1
        => /\ summary[1].best_performing_model # {}
           /\ \A b \in summary[1].best_performing_model :
                  /\ (Len(b) = 0) <=> (Qualifying = {})
                  /\ Len(b) = 1
                         => /\ b[1] \in Qualifying
                            /\ \A q \in Qualifying :
                                   TimeSumOf(b[1]) * TotalOf(q)
                                       <= TimeSumOf(q) * TotalOf(b[1])

\* C20 witness: one key at exactly 4 successes of 5 is selected.
C20_Witness ==
    /\ Len(summary) = 1
    /\ Len(results) = 5
    /\ KeysOf = {<<"local", 1>>}
    /\ SuccessesOf(<<"local", 1>>) = 4
    /\ summary[1].best_performing_model = {<< <<"local", 1>> >>}

\* The keys with a Success result, and per key the cost, the number and the
\* response time sum of its Success results.
SuccessKeys == {q \in KeysOf : SuccessesOf(q) > 0}

SuccessCostOf(q) ==
    LET sel == SelectSeq(results, LAMBDA r : ModelKey(r) = q /\ IsSuccess(r))
    IN SumSeq([i \in 1..Len(sel) |-> sel[i].cost_usd])

SuccessTimeSumOf(q) ==
    LET sel == SelectSeq(results, LAMBDA r : ModelKey(r) = q /\ IsSuccess(r))
    IN SumSeq([i \in 1..Len(sel) |-> sel[i].response_time_ms])

\* C21: every value most_cost_effective can take is a provider/model key
\* with a Success result whose cost summed over its Success results is the
\* lowest among such keys; it is None exactly when no result is Success.
C21_MostCostEffective ==
    Len(summary) = 1
        => /\ summary[1].most_cost_effective # {}
           /\ \A c \in summary[1].most_cost_effective :
                  /\ (Len(c) = 0) <=> (CountStatus("Success") = 0)
                  /\ Len(c) = 1
                         => /\ c[1] \in SuccessKeys
                            /\ \A q \in SuccessKeys :
                                   SuccessCostOf(c[1]) <= SuccessCostOf(q)

\* C21 witness: one key has only a Failed result, the other two Success
\* results of cost 2 and 1; the second is the only selection.
C21_Witness ==
    /\ Len(summary) = 1
    /\ Len(results) = 3
    /\ ModelKey(results[1]) = <<"openai", 1>> /\ results[1].status = "Failed"
    /\ ModelKey(results[2]) = <<"local", 1>> /\ results[2].cost_usd = 2
    /\ ModelKey(results[3]) = <<"local", 1>> /\ results[3].cost_usd = 1
    /\ summary[1].most_cost_effective = {<< <<"local", 1>> >>}

\* C22: every value fastest_model can take is a provider/model key with a
\* Success result whose mean response time over its Success results is the
\* lowest among all such keys, whatever their success rate; it is None
\* exactly when no result is Success.
C22_FastestModel ==
    Len(summary) = 1
        => /\ summary[1].fastest_model # {}
           /\ \A c \in summary[1].fastest_model :
                  /\ (Len(c) = 0) <=> (SuccessKeys = {})
                  /\ Len(c) = 1
                         => /\ c[1] \in SuccessKeys
                            /\ \A q \in SuccessKeys :
                                   SuccessTimeSumOf(c[1]) * SuccessesOf(q)
                                       <= SuccessTimeSumOf(q) * SuccessesOf(c[1])

\* C22 witness: the fastest key is one that best_performing_model excludes
\* for its success rate, and its Failed result is slower than its Success.
C22_Witness ==
    /\ Len(summary) = 1
    /\ Len(results) = 3
    /\ summary[1].fastest_model = {<< <<"openai", 1>> >>}
    /\ summary[1].best_performing_model = {<< <<"local", 1>> >>}
    /\ <<"openai", 1>> \notin Qualifying
    /\ TimeSumOf(<<"openai", 1>>) = 30
    /\ SuccessTimeSumOf(<<"openai", 1>>) = 10
    /\ SuccessTimeSumOf(<<"local", 1>>) = 20

\* ------------------------------------------------------------------------
\* Properties of the helper functions
\* ------------------------------------------------------------------------
Returned(fn) == fn_call.fn = fn /\ Len(fn_call.ret) = 1

InUnitInterval(q) == q[2] > 0 /\ 0 <= q[1] /\ q[1] <= q[2]

\* C24: every similarity algorithm gives the same score with its two texts
\* exchanged, and a score in [0, 1]; Jaccard is the shared over the total
\* distinct lowercase words, the fallback the position-aligned equal
\* characters over the longer length; the fallback and the line diff give
\* 1.0 for two empty texts.
C24_SimilaritySymmetric ==
    Returned("calculate_similarity")
        => LET text1 == fn_call.arg[1]
               text2 == fn_call.arg[2]
               t == fn_call.arg[3]
               score == fn_call.ret[1]
               w1 == split_whitespace(to_lowercase(text1))
               w2 == split_whitespace(to_lowercase(text2))
               shared == {w \in Items(w1) : w \in Items(w2)}
               distinct == Items(w1) \cup Items(w2)
               longer == Max(Len(text1), Len(text2))
               aligned == {i \in 1..longer :
                              /\ i <= Len(text1) /\ i <= Len(text2)
                              /\ text1[i] = text2[i]}
           IN /\ RatEq(score, calculate_similarity(text2, text1, t))
              /\ InUnitInterval(score)
              /\ (t = "Jaccard" /\ distinct # {})
                     => RatEq(score, <<Cardinality(shared), Cardinality(distinct)>>)
              /\ (t = "Other" /\ longer > 0)
                     => RatEq(score, <<Cardinality(aligned), longer>>)
              /\ (t \in {"Other", "Cosine"} /\ text1 = <<>> /\ text2 = <<>>)
                     => RatEq(score, <<1, 1>>)

\* C24 witness: the fallback on "aA " and "a\n" gives 1/3, Jaccard on
\* texts sharing one of two lowercase words is reached as well.
C24_Witness ==
    /\ Returned("calculate_similarity")
    /\ fn_call.arg[3] = "Other"
    /\ fn_call.arg[1] = <<"a", "A", " ">>
    /\ fn_call.arg[2] = <<"a", "\n">>
    /\ RatEq(fn_call.ret[1], <<1, 3>>)

\* The orderings of a sequence.
Perms(n) == {f \in [1..n -> 1..n] : \A i, j \in 1..n : f[i] = f[j] => i = j}

Permute(seq, f) == [i \in 1..Len(seq) |-> seq[f[i]]]

ScoredPairs(m) == {<<PairOf(m[a]), m[a].similarity_score>> : a \in 1..Len(m)}

\* Two analyses agree up to the order of their collections.
SameAnalysis(a, b) ==
    /\ a.performance_stats = b.performance_stats
    /\ a.cost_breakdown.total_cost = b.cost_breakdown.total_cost
    /\ a.cost_breakdown.cost_by_provider = b.cost_breakdown.cost_by_provider
    /\ a.cost_breakdown.cost_by_model = b.cost_breakdown.cost_by_model
    /\ RatEq(a.cost_breakdown.input_token_cost, b.cost_breakdown.input_token_cost)
    /\ RatEq(a.cost_breakdown.output_token_cost, b.cost_breakdown.output_token_cost)
    /\ ScoredPairs(a.similarity_matrix) = ScoredPairs(b.similarity_matrix)
    /\ Items(a.response_metrics) = Items(b.response_metrics)
    /\ Items(a.content_analysis) = Items(b.content_analysis)
    /\ Items(a.quality_indicators) = Items(b.quality_indicators)

AnalysisOrderIndependent ==
    Len(analysis) = 1
        => \A f \in Perms(Len(results)) :
              SameAnalysis(analysis[1],
                           analyze_results(Permute(results, f),
                                           config.analysis_options))

\* C23 as stated: for any two orderings of the same results the analysis is
\* equal (PerformanceStats, CostBreakdown, scored similarity pairs,
\* per-result metrics as sets), the f64 total of the costs included.
C23_OrderIndependent ==
    /\ AnalysisOrderIndependent
    /\ Returned("total_cost")
           => \A f \in Perms(Len(fn_call.arg)) :
                 F64Sum(Permute(fn_call.arg, f)) = fn_call.ret[1]

\* C23, the part that holds: PerformanceStats, the scored similarity pairs and the
\* per-result metrics do not depend on the order, nor do the keys of the
\* cost maps; the cost sums are equal in every order in which no f64
\* addition rounds; analyze_results leaves its input unchanged.
C23_OrderIndependentUpToRounding ==
    /\ [](/\ AnalysisOrderIndependent
          /\ Returned("total_cost")
                 => ((\A f \in Perms(Len(fn_call.arg)) :
                         F64SumExact(Permute(fn_call.arg, f)))
                     => \A f \in Perms(Len(fn_call.arg)) :
                           F64Sum(Permute(fn_call.arg, f)) = fn_call.ret[1]))
    /\ [][(pc = "returned_ok" /\ pc' = "analyzed") => results' = results]_vars

\* C23 witness: 3 results analysed, the second Failed, the two Success
\* results of different providers, times and outputs, their similarity below
\* 1.
C23_Witness ==
    /\ Len(analysis) = 1
    /\ Len(results) = 3
    /\ results[1].status = "Success" /\ results[1].response_time_ms = 20
    /\ results[2].status = "Failed"
    /\ results[3].status = "Success" /\ results[3].response_time_ms = 10
    /\ results[1].provider # results[3].provider
    /\ results[1].output # results[3].output
    /\ Len(analysis[1].similarity_matrix) = 1
    /\ RatLess(analysis[1].similarity_matrix[1].similarity_score, <<1, 1>>)

\* A fraction in thousandths, rounded down.
Thousandths(q) ==
    (q[1] \div q[2]) * 1000 + ((q[1] % q[2]) * 1000) \div q[2]

\* A fraction is the given number of thousandths up to one thousandth.
Within(q, thousandths) ==
    Thousandths(q) \in (thousandths - 1)..(thousandths + 1)

ReadabilityExample ==
    /\ Returned("calculate_readability_score")
    /\ WordCount(fn_call.arg) = 100
    /\ count_sentences(fn_call.arg) = 5
    /\ estimate_syllables(fn_call.arg) = 150

\* C25 as stated: for words = 100, sentences = 5 and syllables = 150
\* calculate_readability_score gives 60.235 within tolerance.
C25_Readability60235 ==
    ReadabilityExample
        => Within(fn_call.ret[1], 60235)

\* C25 amended: for words = 100, sentences = 5 and syllables = 150
\* calculate_readability_score gives 206.835 - 1.015 * 20 - 84.6 * 1.5 =
\* 59.635 within tolerance.
C25_Readability59635 ==
    ReadabilityExample
        => Within(fn_call.ret[1], 59635)

\* C25 witness: the score was returned for a text of 100 words, 5 sentences
\* and 150 syllables, 45 of its words without a vowel.
C25_Witness ==
    /\ ReadabilityExample
    /\ fn_call.arg[<<"b">>] = 45

\* A marker is present in a text, in any letter case.
Present(text, marker) ==
    \E phrase \in text.phrases :
       Contains(to_lowercase(phrase), to_lowercase(marker))

ExpectedConfidence(text) ==
    ConfidenceBase
      + (IF text.len > DetailedLen THEN ConfidenceStep ELSE 0)
      + (IF text.len > VeryDetailedLen THEN ConfidenceStep ELSE 0)
      + (IF text.structured THEN ConfidenceStep ELSE 0)
      - MarkerStep * Cardinality({m \in uncertainty_markers : Present(text, m)})
      + MarkerStep * Cardinality({m \in definitive_markers : Present(text, m)})

\* C26 as stated: the confidence score is 50, +10 for length > 100, +10 for
\* length > 500, +10 for structure, -5 for each of the 6 uncertainty markers
\* present, +5 for each of the 5 definitive markers present, clamped, and so
\* within [0, 100].
C26_ConfidenceScore ==
    Returned("calculate_confidence_score")
        => /\ fn_call.ret[1] \in 0..100
           /\ fn_call.ret[1] = Clamp(ExpectedConfidence(fn_call.arg))

\* C26, the part that holds: the confidence score is within [0, 100] for
\* every text.
C26_ConfidenceInRange ==
    Returned("calculate_confidence_score") => fn_call.ret[1] \in 0..100

IsZero(q) == RatEq(q, <<0, 1>>)

\* C27: for the empty result set analyze_results returns empty metric,
\* similarity, content and quality collections, total cost 0 with empty cost
\* maps, success rate 0, average, median, least and greatest response time 0
\* and no executions; generate_summary returns zero counts, success rate 0
\* and None for the three model selections.
C27_EmptyDefaults ==
    results = <<>>
        => /\ pc \in {"analyzed", "summarized"}
                  => /\ Len(analysis) = 1
                     /\ analysis[1].response_metrics = <<>>
                     /\ analysis[1].similarity_matrix = <<>>
                     /\ analysis[1].content_analysis = <<>>
                     /\ analysis[1].quality_indicators = <<>>
                     /\ analysis[1].cost_breakdown.total_cost = 0
                     /\ DOMAIN analysis[1].cost_breakdown.cost_by_provider = {}
                     /\ DOMAIN analysis[1].cost_breakdown.cost_by_model = {}
                     /\ IsZero(analysis[1].cost_breakdown.input_token_cost)
                     /\ IsZero(analysis[1].cost_breakdown.output_token_cost)
                     /\ IsZero(analysis[1].performance_stats.success_rate)
                     /\ IsZero(analysis[1].performance_stats.avg_response_time)
                     /\ IsZero(analysis[1].performance_stats.median_response_time)
                     /\ analysis[1].performance_stats.min_response_time = 0
                     /\ analysis[1].performance_stats.max_response_time = 0
                     /\ analysis[1].performance_stats.total_executions = 0
                     /\ analysis[1].performance_stats.failed_executions = 0
           /\ pc = "summarized"
                  => /\ Len(summary) = 1
                     /\ summary[1].total_executions = 0
                     /\ summary[1].successful_executions = 0
                     /\ summary[1].failed_executions = 0
                     /\ summary[1].total_cost = 0
                     /\ IsZero(summary[1].avg_response_time)
                     /\ IsZero(summary[1].success_rate)
                     /\ summary[1].best_performing_model = {<<>>}
                     /\ summary[1].most_cost_effective = {<<>>}
                     /\ summary[1].fastest_model = {<<>>}

\* C27 witness: the empty result set was analysed with every feature
\* enabled and summarised.
C27_Witness ==
    /\ results = <<>>
    /\ pc = "summarized"
    /\ Len(summary) = 1
    /\ config.analysis_options = AllEnabled

\* The planned work items of a parallel run by their state.
NotStarted ==
    {pending_executions[i] : i \in (pending_iter + 1)..Len(pending_executions)}

InFlight == futures

\* C28: in every state of execute_parallel each planned work item is in
\* exactly one of not started, in flight and completed; executing is the
\* number of calls in flight; the three sets together hold all planned
\* items; an item is started only in the initial fill or in the step in
\* which a call completes.
C28_ThreeSets ==
    /\ [](Parallel
            => /\ NotStarted \cap InFlight = {}
               /\ NotStarted \cap CompletedItems = {}
               /\ InFlight \cap CompletedItems = {}
               /\ NotStarted \cup InFlight \cup CompletedItems = Items(planned)
               /\ Cardinality(NotStarted) + Cardinality(InFlight)
                      + Len(completed) = Len(planned)
               /\ executing = Cardinality(InFlight))
    /\ [][(Parallel /\ submitted' # submitted)
            => /\ Len(submitted') = Len(submitted) + 1
               /\ submitted'[Len(submitted')] \in NotStarted
               /\ \/ pc = "par_start"
                  \/ pc = "par_drain" /\ Len(completed') = Len(completed) + 1]_vars

\* C28 witness: in the drain loop of a parallel run one item is not started,
\* one is in flight and one is completed.
C28_Witness ==
    /\ Parallel
    /\ pc = "par_drain"
    /\ NotStarted # {}
    /\ InFlight # {}
    /\ CompletedItems # {}

\* The persisted evaluation is marked Running and otherwise as it was before
\* the run.
StillRunningWithPrevious ==
    /\ Len(stored) = 1
    /\ stored[1].status = "Running"
    /\ stored[1].completed_at \in {<<>>, <<"earlier">>}
    /\ stored[1].completed_at = <<>> => stored[1].results = <<>>
    /\ stored[1].completed_at = <<"earlier">> => stored[1].results = <<"previous">>

\* C29 as stated: when a run fails after the evaluation was marked Running
\* (a planning error, a storage error on the final update), the persisted
\* evaluation keeps status Running with its previous results and
\* completed_at.
C29_FailedRunStaysRunning ==
    pc \in {"returned_err", "store_err"} => StillRunningWithPrevious

\* C29, the part that holds: a run that fails before the final update, or
\* whose final update fails on the evaluation row, leaves the persisted
\* evaluation Running with its previous results and completed_at.
C29_FailedBeforeResultsStaysRunning ==
    /\ pc = "returned_err" => StillRunningWithPrevious
    /\ (pc = "store_err" /\ stored[1].status # "Completed")
          => StillRunningWithPrevious

\* C30: running an evaluation whose status is Completed without --force
\* makes no gateway call, leaves the stored status, results and completed_at
\* as they are, writes nothing and returns Ok; with --force the evaluation is
\* run again and its stored results are those of the new run.
C30_CompletedIsSkipped ==
    /\ [](pc = "skipped"
            => /\ ~args.force
               /\ stored = <<CompletedRow>>
               /\ submitted = <<>>
               /\ completed = <<>>
               /\ results = <<>>)
    /\ [][(pc = "start" /\ Len(stored) = 1 /\ stored[1].status = "Completed"
            /\ ~args.force)
             => /\ pc' = "skipped"
                /\ UNCHANGED <<stored, submitted, completed, results>>]_vars
    /\ [][pc = "skipped" => UNCHANGED vars]_vars
    /\ [](args.force => pc # "skipped")
    /\ []((args.force /\ pc = "done")
            => /\ stored[1].status = "Completed"
               /\ stored[1].completed_at = <<"now">>
               /\ stored[1].results[1].executions = results
               /\ stored[1].results[1].analysis = analysis[1]
               /\ stored[1].results[1].summary = summary[1])

\* C30 witness: a Completed evaluation run without --force was skipped.
C30_Witness ==
    /\ pc = "skipped"
    /\ ~args.force
    /\ stored = <<CompletedRow>>

====
